---- MODULE Spec2Model ----
(***************************************************************************)
(* A model of static_frame/core/util.py: dtype resolution, null values,    *)
(* null tests and the roll functions.                                      *)
(*                                                                         *)
(* Every function under study is called through one frame: args holds the *)
(* arguments, locals the function's local variables between steps, ret the *)
(* returned value (or the raised exception), pc the position, and mem the  *)
(* array storage allocated so far.                                         *)
(***************************************************************************)
EXTENDS Integers, Sequences, FiniteSets, TLC

VARIABLES pc, args, locals, ret, mem

vars == <<pc, args, locals, ret, mem>>

\* Bounds of the model.
MaxStrWidth == 3
MaxIter == 3
MaxLen == 3
MaxRows == 2
MaxCols == 2
MaxShift == 7

Max(a, b) == IF a >= b THEN a ELSE b

(***************************************************************************)
(* np.dtype.  A dtype is [kind, n]: kind is dtype.kind (one of             *)
(* biufcmMOSUV); n is the item size in bytes for b, i, u, f, c, O and V,   *)
(* the number of characters for U and S, and numpy's unit code for M and m *)
(* (Y 0, M 1, W 2, D 4, h 5, m 6, s 7, ms 8, us 9, ns 10, ps 11, fs 12,    *)
(* as 13, generic 14).  An exception raised instead of a return is the     *)
(* record [kind |-> <exception name>, n |-> 0].                            *)
(***************************************************************************)
Dtype(k, n) == [kind |-> k, n |-> n]

Raise(exc) == [kind |-> exc, n |-> 0]

Exceptions ==
    {"TypeError", "OverflowError", "NotImplementedError", "StopIteration", "ZeroDivisionError",
     "RuntimeError", "AssertionError", "ValueError"}

IsDtype(d) == d.kind \notin Exceptions

DTYPE_STR_KIND == {"U", "S"}
DTYPE_INT_KIND == {"i", "u"}
DTYPE_NAN_KIND == {"f", "c"}
DTYPE_DATETIME_KIND == "M"
DTYPE_TIMEDELTA_KIND == "m"
DTYPE_NAT_KIND == {"M", "m"}
DTYPE_OBJECT == Dtype("O", 8)
DTYPE_BOOL == Dtype("b", 1)

TimeUnits == {0, 1, 2, 4, 5, 6, 7, 8, 9, 10, 11, 12, 13, 14}

NumericKinds == {"b", "i", "u", "f", "c"}

\* The dtypes the functions are called with.
Dtypes ==
    {DTYPE_BOOL, DTYPE_OBJECT, Dtype("V", 1)}
    \cup {Dtype(k, n) : k \in DTYPE_INT_KIND, n \in {1, 2, 4, 8}}
    \cup {Dtype("f", n) : n \in {2, 4, 8, 16}}
    \cup {Dtype("c", n) : n \in {8, 16, 32}}
    \cup {Dtype(k, n) : k \in DTYPE_STR_KIND, n \in 1..MaxStrWidth}
    \cup {Dtype(k, u) : k \in DTYPE_NAT_KIND, u \in TimeUnits}

(***************************************************************************)
(* np.result_type on two dtypes (numpy's promote_types).                   *)
(***************************************************************************)
\* The smallest float size that holds every integer of the given item size.
FloatFor(n) == IF n = 1 THEN 2 ELSE IF n = 2 THEN 4 ELSE 8

\* As a float size: the real part that a dtype of a numeric kind needs.
AsFloat(d) ==
    CASE d.kind = "f" -> d.n
      [] d.kind = "c" -> d.n \div 2
      [] d.kind = "b" -> 2
      [] OTHER -> FloatFor(d.n)

promote_numeric(a, b) ==
    CASE a.kind = "b" -> b
      [] b.kind = "b" -> a
      [] a.kind = "c" \/ b.kind = "c" -> Dtype("c", 2 * Max(AsFloat(a), AsFloat(b)))
      [] a.kind = "f" \/ b.kind = "f" -> Dtype("f", Max(AsFloat(a), AsFloat(b)))
      [] a.kind = b.kind -> Dtype(a.kind, Max(a.n, b.n))
      [] OTHER ->
            LET i == IF a.kind = "i" THEN a ELSE b
                u == IF a.kind = "u" THEN a ELSE b
            IN  IF i.n > u.n THEN i
                ELSE IF u.n < 8 THEN Dtype("i", 2 * u.n)
                ELSE Dtype("f", 8)

\* The characters numpy reserves to print a number of the dtype as text.
ReprWidth(d) ==
    CASE d.kind = "b" -> 5
      [] d.kind = "u" -> (IF d.n = 1 THEN 3 ELSE IF d.n = 2 THEN 5 ELSE IF d.n = 4 THEN 10 ELSE 20)
      [] d.kind = "i" -> (IF d.n = 1 THEN 4 ELSE IF d.n = 2 THEN 6 ELSE IF d.n = 4 THEN 11 ELSE 21)
      [] d.kind = "f" -> 32
      [] OTHER -> 64

\* numpy's _datetime_factors: the multiplier from a unit to the next finer one,
\* split into its part below 1000 and the number of factors of 1000.
UnitSmall(u) == CASE u = 2 -> 7 [] u = 4 -> 24 [] u \in {5, 6} -> 60 [] OTHER -> 1

UnitThousands(u) == IF u \in 7..12 THEN 1 ELSE 0

RECURSIVE FactorSmall(_, _)
FactorSmall(big, little) ==
    IF big >= little THEN 1 ELSE UnitSmall(big) * FactorSmall(big + 1, little)

RECURSIVE FactorThousands(_, _)
FactorThousands(big, little) ==
    IF big >= little THEN 0 ELSE UnitThousands(big) + FactorThousands(big + 1, little)

\* numpy's get_datetime_units_factor returns 0 once the product reaches 2^56
\* (any of its top eight bits set): small * 1000^k >= 72057594037927936.
units_factor_overflows(big, little) ==
    LET small == FactorSmall(big, little)
        k == FactorThousands(big, little)
    IN  \/ k >= 6
        \/ k = 5 /\ small >= 73
        \/ k = 4 /\ small >= 72058

\* numpy's compute_datetime_metadata_greatest_common_divisor for two units
\* with multiplier 1; strict is set for timedelta64 and clear for datetime64.
datetime_gcd(kind, u1, u2, strict) ==
    LET big == IF u1 < u2 THEN u1 ELSE u2
        little == IF u1 < u2 THEN u2 ELSE u1
    IN  IF u1 = 14 THEN Dtype(kind, u2)
        ELSE IF u2 = 14 THEN Dtype(kind, u1)
        ELSE IF u1 = u2 THEN Dtype(kind, u1)
        ELSE IF big = 0 /\ little = 1 THEN Dtype(kind, 1)
        ELSE IF big \in {0, 1} /\ strict THEN Raise("TypeError")
        ELSE IF units_factor_overflows(big, little) THEN Raise("OverflowError")
        ELSE Dtype(kind, little)

result_type(dt1, dt2) ==
    CASE dt1 = dt2 -> dt1
      [] dt1.kind = "O" \/ dt2.kind = "O" -> DTYPE_OBJECT
      [] dt1.kind \in DTYPE_STR_KIND /\ dt2.kind \in DTYPE_STR_KIND ->
            Dtype(IF "U" \in {dt1.kind, dt2.kind} THEN "U" ELSE "S", Max(dt1.n, dt2.n))
      [] dt1.kind = "M" /\ dt2.kind = "M" -> datetime_gcd("M", dt1.n, dt2.n, FALSE)
      [] dt1.kind = "m" /\ dt2.kind = "m" -> datetime_gcd("m", dt1.n, dt2.n, TRUE)
      [] dt1.kind \in NumericKinds /\ dt2.kind \in NumericKinds -> promote_numeric(dt1, dt2)
      [] dt1.kind \in DTYPE_STR_KIND /\ dt2.kind \in NumericKinds ->
            Dtype(dt1.kind, Max(dt1.n, ReprWidth(dt2)))
      [] dt2.kind \in DTYPE_STR_KIND /\ dt1.kind \in NumericKinds ->
            Dtype(dt2.kind, Max(dt2.n, ReprWidth(dt1)))
      [] dt1.kind = "m" /\ dt2.kind \in {"b", "i", "u"} -> dt1
      [] dt2.kind = "m" /\ dt1.kind \in {"b", "i", "u"} -> dt2
      [] OTHER -> Raise("TypeError")

(***************************************************************************)
(* resolve_dtype                                                           *)
(***************************************************************************)
\* resolve_dtype with the test for a boolean second operand left out.
resolve_dtype_bool1(dt1, dt2) ==
    LET dt1_is_str == dt1.kind \in DTYPE_STR_KIND
        dt2_is_str == dt2.kind \in DTYPE_STR_KIND
        dt1_is_dt == dt1.kind = DTYPE_DATETIME_KIND
        dt2_is_dt == dt2.kind = DTYPE_DATETIME_KIND
        dt1_is_tdelta == dt1.kind = DTYPE_TIMEDELTA_KIND
        dt2_is_tdelta == dt2.kind = DTYPE_TIMEDELTA_KIND
        dt1_is_bool == dt1.kind = "b"
    IN  IF dt1 = dt2 THEN dt1
        ELSE IF dt1.kind = "O" \/ dt2.kind = "O" THEN DTYPE_OBJECT
        ELSE IF dt1_is_str /\ dt2_is_str THEN result_type(dt1, dt2)
        ELSE IF dt1_is_dt /\ dt2_is_dt THEN result_type(dt1, dt2)
        ELSE IF dt1_is_tdelta /\ dt2_is_tdelta THEN
            (IF result_type(dt1, dt2) = Raise("TypeError")
                THEN DTYPE_OBJECT
                ELSE result_type(dt1, dt2))
        ELSE IF \/ dt1_is_str \/ dt2_is_str
                \/ dt1_is_bool
                \/ dt1_is_dt \/ dt2_is_dt
                \/ dt1_is_tdelta \/ dt2_is_tdelta
            THEN DTYPE_OBJECT
        ELSE result_type(dt1, dt2)

\* resolve_dtype without the early return for equal dtypes.
resolve_dtype_noeq(dt1, dt2) ==
    LET dt1_is_str == dt1.kind \in DTYPE_STR_KIND
        dt2_is_str == dt2.kind \in DTYPE_STR_KIND
        dt1_is_dt == dt1.kind = DTYPE_DATETIME_KIND
        dt2_is_dt == dt2.kind = DTYPE_DATETIME_KIND
        dt1_is_tdelta == dt1.kind = DTYPE_TIMEDELTA_KIND
        dt2_is_tdelta == dt2.kind = DTYPE_TIMEDELTA_KIND
        dt1_is_bool == dt1.kind = "b"
        dt2_is_bool == dt2.kind = "b"
    IN  IF dt1.kind = "O" \/ dt2.kind = "O" THEN DTYPE_OBJECT
        ELSE IF dt1_is_str /\ dt2_is_str THEN result_type(dt1, dt2)
        ELSE IF dt1_is_dt /\ dt2_is_dt THEN result_type(dt1, dt2)
        ELSE IF dt1_is_tdelta /\ dt2_is_tdelta THEN
            (IF result_type(dt1, dt2) = Raise("TypeError")
                THEN DTYPE_OBJECT
                ELSE result_type(dt1, dt2))
        ELSE IF \/ dt1_is_str \/ dt2_is_str
                \/ dt1_is_bool \/ dt2_is_bool
                \/ dt1_is_dt \/ dt2_is_dt
                \/ dt1_is_tdelta \/ dt2_is_tdelta
            THEN DTYPE_OBJECT
        ELSE result_type(dt1, dt2)

\* resolve_dtype keeping the first operand when both are string-kind.
resolve_dtype_strfirst(dt1, dt2) ==
    LET dt1_is_str == dt1.kind \in DTYPE_STR_KIND
        dt2_is_str == dt2.kind \in DTYPE_STR_KIND
        dt1_is_dt == dt1.kind = DTYPE_DATETIME_KIND
        dt2_is_dt == dt2.kind = DTYPE_DATETIME_KIND
        dt1_is_tdelta == dt1.kind = DTYPE_TIMEDELTA_KIND
        dt2_is_tdelta == dt2.kind = DTYPE_TIMEDELTA_KIND
        dt1_is_bool == dt1.kind = "b"
        dt2_is_bool == dt2.kind = "b"
    IN  IF dt1 = dt2 THEN dt1
        ELSE IF dt1.kind = "O" \/ dt2.kind = "O" THEN DTYPE_OBJECT
        ELSE IF dt1_is_str /\ dt2_is_str THEN dt1
        ELSE IF dt1_is_dt /\ dt2_is_dt THEN result_type(dt1, dt2)
        ELSE IF dt1_is_tdelta /\ dt2_is_tdelta THEN
            (IF result_type(dt1, dt2) = Raise("TypeError")
                THEN DTYPE_OBJECT
                ELSE result_type(dt1, dt2))
        ELSE IF \/ dt1_is_str \/ dt2_is_str
                \/ dt1_is_bool \/ dt2_is_bool
                \/ dt1_is_dt \/ dt2_is_dt
                \/ dt1_is_tdelta \/ dt2_is_tdelta
            THEN DTYPE_OBJECT
        ELSE result_type(dt1, dt2)

resolve_dtype(dt1, dt2) ==
    LET dt1_is_str == dt1.kind \in DTYPE_STR_KIND
        dt2_is_str == dt2.kind \in DTYPE_STR_KIND
        dt1_is_dt == dt1.kind = DTYPE_DATETIME_KIND
        dt2_is_dt == dt2.kind = DTYPE_DATETIME_KIND
        dt1_is_tdelta == dt1.kind = DTYPE_TIMEDELTA_KIND
        dt2_is_tdelta == dt2.kind = DTYPE_TIMEDELTA_KIND
        dt1_is_bool == dt1.kind = "b"
        dt2_is_bool == dt2.kind = "b"
    IN  IF dt1 = dt2 THEN dt1
        ELSE IF dt1.kind = "O" \/ dt2.kind = "O" THEN DTYPE_OBJECT
        ELSE IF dt1_is_str /\ dt2_is_str THEN result_type(dt1, dt2)
        ELSE IF dt1_is_dt /\ dt2_is_dt THEN result_type(dt1, dt2)
        ELSE IF dt1_is_tdelta /\ dt2_is_tdelta THEN
            (IF result_type(dt1, dt2) = Raise("TypeError")
                THEN DTYPE_OBJECT
                ELSE result_type(dt1, dt2))
        ELSE IF \/ dt1_is_str \/ dt2_is_str
                \/ dt1_is_bool \/ dt2_is_bool
                \/ dt1_is_dt \/ dt2_is_dt
                \/ dt1_is_tdelta \/ dt2_is_tdelta
            THEN DTYPE_OBJECT
        ELSE result_type(dt1, dt2)

NoArgs == [fn |-> "none"]
NoLocals == [none |-> TRUE]
NoRet == Raise("none")
NoMem == <<>>

\* The pairs of dtypes given to the functions: all but those where numpy's own
\* outcome differs between its versions or is not settled by what the
\* repository's code and tests show (a datetime64 in years or months against
\* one in ps, fs or as; a void dtype against a number).
KnownPromotion(dt1, dt2) ==
    /\ ~ /\ dt1.kind = "M" /\ dt2.kind = "M"
         /\ \/ dt1.n \in {0, 1} /\ dt2.n \in {11, 12, 13}
            \/ dt2.n \in {0, 1} /\ dt1.n \in {11, 12, 13}
    /\ ~ (dt1.kind = "V" /\ dt2.kind \in {"i", "u", "f", "c"})
    /\ ~ (dt2.kind = "V" /\ dt1.kind \in {"i", "u", "f", "c"})

\* resolve_dtype(dt1, dt2) is called on any two dtypes.
InitResolve ==
    /\ pc = "call"
    /\ \E dt1 \in Dtypes, dt2 \in Dtypes :
            /\ KnownPromotion(dt1, dt2)
            /\ args = [fn |-> "resolve_dtype", dt1 |-> dt1, dt2 |-> dt2]
    /\ locals = NoLocals
    /\ ret = NoRet
    /\ mem = NoMem

ResolveDtype ==
    /\ pc = "call"
    /\ args.fn = "resolve_dtype"
    /\ ret' = resolve_dtype(args.dt1, args.dt2)
    /\ pc' = "done"
    /\ UNCHANGED <<args, locals, mem>>

SpecResolve == InitResolve /\ [][ResolveDtype]_vars

Resolved == pc = "done" /\ args.fn = "resolve_dtype"

\* C1: resolve_dtype is symmetric: for every pair of dtypes, resolve_dtype(d1, d2)
\* has the outcome of resolve_dtype(d2, d1).
C1_Symmetric == Resolved => ret = resolve_dtype(args.dt2, args.dt1)

\* A mixed byte-string / unicode pair, resolved to a dtype that is neither operand.
C1_Witness ==
    /\ Resolved
    /\ args.dt1 = Dtype("S", 2) /\ args.dt2 = Dtype("U", 1)
    /\ ret = Dtype("U", 2)

\* C2: resolve_dtype is idempotent: resolve_dtype(d, d) returns d.
C2_Idempotent == Resolved /\ args.dt1 = args.dt2 => ret = args.dt1

C2_Witness == Resolved /\ args.dt1 = DTYPE_BOOL /\ args.dt2 = DTYPE_BOOL /\ ret = DTYPE_BOOL

Family(d) ==
    CASE d.kind = "b" -> "bool"
      [] d.kind \in DTYPE_STR_KIND -> "string"
      [] d.kind = "M" -> "datetime"
      [] d.kind = "m" -> "timedelta"
      [] d.kind = "O" -> "object"
      [] d.kind \in {"i", "u", "f", "c"} -> "numeric"
      [] OTHER -> "void"

\* numpy's safe casts between the non-boolean numeric dtypes.
CanCastSafe(a, b) ==
    CASE a.kind = b.kind -> a.n <= b.n
      [] a.kind = "u" /\ b.kind = "i" -> a.n < b.n
      [] a.kind \in DTYPE_INT_KIND /\ b.kind = "f" -> FloatFor(a.n) <= b.n
      [] a.kind \in DTYPE_INT_KIND /\ b.kind = "c" -> 2 * FloatFor(a.n) <= b.n
      [] a.kind = "f" /\ b.kind = "c" -> 2 * a.n <= b.n
      [] OTHER -> FALSE

KindRank(d) == CASE d.kind = "u" -> 1 [] d.kind = "i" -> 2 [] d.kind = "f" -> 3 [] OTHER -> 4

\* The standard promotion: of the dtypes both operands cast to safely, the one of
\* the lowest kind and, within the kind, of the smallest size.
StandardPromotion(a, b) ==
    LET upper == {x \in Dtypes : Family(x) = "numeric" /\ CanCastSafe(a, x) /\ CanCastSafe(b, x)}
    IN  CHOOSE x \in upper : \A y \in upper :
            \/ KindRank(x) < KindRank(y)
            \/ KindRank(x) = KindRank(y) /\ x.n <= y.n

\* C3: for two different dtypes the result is object when either is object, or
\* when one is boolean, string-kind, datetime or timedelta and the other is of
\* another family; two string-kind dtypes give the wider string dtype; two
\* non-boolean numeric dtypes give the standard promoted numeric dtype.
C3_Rules ==
    Resolved /\ args.dt1 # args.dt2 =>
        LET d1 == args.dt1
            d2 == args.dt2
            exclusive == {"bool", "string", "datetime", "timedelta"}
        IN  /\ Family(d1) = "object" \/ Family(d2) = "object" => ret = DTYPE_OBJECT
            /\ (Family(d1) \in exclusive \/ Family(d2) \in exclusive)
                    /\ Family(d1) # Family(d2) => ret = DTYPE_OBJECT
            /\ Family(d1) = "string" /\ Family(d2) = "string" =>
                    /\ ret.kind \in DTYPE_STR_KIND
                    /\ ret.n = Max(d1.n, d2.n)
                    /\ d1.kind = d2.kind => ret = (IF d1.n > d2.n THEN d1 ELSE d2)
                    /\ d1.kind # d2.kind => ret.kind = "U"
            /\ Family(d1) = "numeric" /\ Family(d2) = "numeric" =>
                    ret = StandardPromotion(d1, d2)

\* A signed and an unsigned integer of the same size, promoted past both.
C3_Witness ==
    /\ Resolved
    /\ args.dt1 = Dtype("i", 8) /\ args.dt2 = Dtype("u", 8)
    /\ ret = Dtype("f", 8)

\* C4: resolve_dtype is total: it returns a dtype for every pair and never raises;
\* two datetime or two timedelta dtypes give a dtype of their kind or object.
C4_Total ==
    Resolved =>
        /\ IsDtype(ret)
        /\ args.dt1.kind = args.dt2.kind /\ args.dt1.kind \in DTYPE_NAT_KIND =>
                ret.kind \in {args.dt1.kind, "O"}

(***************************************************************************)
(* resolve_dtype_iter                                                      *)
(***************************************************************************)
\* The dtypes the iterables are built from.
IterDtypes ==
    {DTYPE_BOOL, DTYPE_OBJECT,
     Dtype("i", 1), Dtype("u", 1), Dtype("f", 2), Dtype("i", 8), Dtype("u", 8),
     Dtype("U", 1), Dtype("S", 2),
     Dtype("m", 0), Dtype("m", 7), Dtype("m", 13)}

SeqsUpTo(S, n) == UNION {[1..k -> S] : k \in 0..n}

InitIter ==
    /\ pc = "call"
    /\ \E dtypes \in SeqsUpTo(IterDtypes, MaxIter) :
            args = [fn |-> "resolve_dtype_iter", dtypes |-> dtypes]
    /\ locals = NoLocals
    /\ ret = NoRet
    /\ mem = NoMem

\* The loop's test after a pairwise resolution: return at once.
iter_stops_inverted(dt_resolve) == dt_resolve # DTYPE_OBJECT

iter_stops(dt_resolve) == dt_resolve = DTYPE_OBJECT

\* dt_resolve = next(dtypes)
IterFirst ==
    /\ pc = "call"
    /\ args.fn = "resolve_dtype_iter"
    /\ IF Len(args.dtypes) = 0
        THEN /\ ret' = Raise("StopIteration")
             /\ pc' = "done"
             /\ UNCHANGED locals
        ELSE /\ locals' = [dt_resolve |-> args.dtypes[1], consumed |-> 1]
             /\ pc' = "loop"
             /\ UNCHANGED ret
    /\ UNCHANGED <<args, mem>>

\* One pass of the for loop: resolve against the next dtype, return on object.
IterStep ==
    /\ pc = "loop"
    /\ locals.consumed < Len(args.dtypes)
    /\ LET dt == args.dtypes[locals.consumed + 1]
           dt_resolve == resolve_dtype(locals.dt_resolve, dt)
       IN  IF ~IsDtype(dt_resolve) \/ iter_stops(dt_resolve)
            THEN /\ ret' = dt_resolve
                 /\ pc' = "done"
                 /\ locals' = [locals EXCEPT !.consumed = @ + 1]
            ELSE /\ locals' = [dt_resolve |-> dt_resolve, consumed |-> locals.consumed + 1]
                 /\ UNCHANGED <<ret, pc>>
    /\ UNCHANGED <<args, mem>>

\* The iterator is exhausted: return dt_resolve.
IterReturn ==
    /\ pc = "loop"
    /\ locals.consumed = Len(args.dtypes)
    /\ ret' = locals.dt_resolve
    /\ pc' = "done"
    /\ UNCHANGED <<args, locals, mem>>

NextIter == IterFirst \/ IterStep \/ IterReturn

SpecIter == InitIter /\ [][NextIter]_vars

\* The left fold of resolve_dtype over dtypes[1..k], an exception ending it.
RECURSIVE FoldLeft(_, _)
FoldLeft(dtypes, k) ==
    IF k = 1 THEN dtypes[1]
    ELSE LET acc == FoldLeft(dtypes, k - 1)
         IN  IF IsDtype(acc) THEN resolve_dtype(acc, dtypes[k]) ELSE acc

IterDone == pc = "done" /\ args.fn = "resolve_dtype_iter" /\ Len(args.dtypes) >= 1

\* C5: resolve_dtype_iter over d1..dn (n >= 1) equals the left fold of
\* resolve_dtype over the whole sequence, and object is absorbing: once the fold
\* of a prefix is object, object is returned whatever dtypes follow.
C5_Fold ==
    IterDone =>
        /\ ret = FoldLeft(args.dtypes, Len(args.dtypes))
        /\ \A k \in 1..Len(args.dtypes) :
                FoldLeft(args.dtypes, k) = DTYPE_OBJECT => ret = DTYPE_OBJECT

\* The short-circuit return was taken with dtypes left unread that, without
\* object before them, resolve to something else.
C5_Witness ==
    /\ IterDone
    /\ locals.consumed < Len(args.dtypes)
    /\ ret = DTYPE_OBJECT
    /\ args.dtypes[Len(args.dtypes)] = Dtype("i", 8)

(***************************************************************************)
(* Values.  A Python or numpy scalar is [t, v, s]: t its type, v its       *)
(* payload as a number (a string is the number that stands for it, the     *)
(* empty string 0), s "nan" for a not-a-number, "nat" for a not-a-time and *)
(* "" otherwise.  A raised exception is a value whose t is its name.       *)
(***************************************************************************)
Value(t, v) == [t |-> t, v |-> v, s |-> ""]

NAN(t) == [t |-> t, v |-> 0, s |-> "nan"]

NAT == [t |-> "datetime64", v |-> 0, s |-> "nat"]
EMPTY_TIMEDELTA == Value("timedelta64", 0)
None == Value("NoneType", 0)

RaiseValue(exc) == Value(exc, 0)

PyNumbers == {"bool", "int", "float", "complex"}

\* Python's == on two scalars.
PyEq(x, y) ==
    /\ x.s = "" /\ y.s = ""
    /\ x.v = y.v
    /\ x.t = y.t \/ (x.t \in PyNumbers /\ y.t \in PyNumbers)

(***************************************************************************)
(* dtype_to_na                                                             *)
(***************************************************************************)
\* dtype_to_na taking the integer branch for every kind that has no NaN.
dtype_to_na_zero(dtype) ==
    LET kind == dtype.kind
    IN  CASE kind \in DTYPE_INT_KIND \cup {"b"} \cup DTYPE_STR_KIND -> Value("int", 0)
          [] kind \in DTYPE_NAN_KIND -> NAN("float")
          [] kind = "O" -> None
          [] kind = DTYPE_DATETIME_KIND -> NAT
          [] kind = DTYPE_TIMEDELTA_KIND -> EMPTY_TIMEDELTA
          [] OTHER -> RaiseValue("NotImplementedError")

dtype_to_na(dtype) ==
    LET kind == dtype.kind
    IN  CASE kind \in DTYPE_INT_KIND -> Value("int", 0)
          [] kind = "b" -> Value("bool", 0)
          [] kind \in DTYPE_NAN_KIND -> NAN("float")
          [] kind = "O" -> None
          [] kind \in DTYPE_STR_KIND -> Value("str", 0)
          [] kind = DTYPE_DATETIME_KIND -> NAT
          [] kind = DTYPE_TIMEDELTA_KIND -> EMPTY_TIMEDELTA
          [] OTHER -> RaiseValue("NotImplementedError")

(***************************************************************************)
(* isna_element, isna_array                                                *)
(***************************************************************************)
\* np.isnan and np.isnat on a scalar: "True", "False", or "TypeError" for a
\* type the ufunc does not take.
np_isnan(value) ==
    IF value.t \in PyNumbers
        THEN (IF value.s = "nan" THEN "True" ELSE "False")
        ELSE "TypeError"

np_isnat(value) ==
    IF value.t \in {"datetime64", "timedelta64"}
        THEN (IF value.s = "nat" THEN "True" ELSE "False")
        ELSE "TypeError"

isna_element(value) ==
    IF np_isnan(value) # "TypeError" THEN np_isnan(value) = "True"
    ELSE IF np_isnat(value) # "TypeError" THEN np_isnat(value) = "True"
    ELSE value = None

\* An array is [dtype, shape, data]: data holds the elements in row-major order.
Array(dtype, shape, data) == [dtype |-> dtype, shape |-> shape, data |-> data]

\* isna_array without the branch for the datetime and timedelta kinds.
isna_array_nonat(array) ==
    LET kind == array.dtype.kind
        n == Len(array.data)
    IN  IF kind \in DTYPE_NAN_KIND THEN
            Array(DTYPE_BOOL, array.shape, [i \in 1..n |-> array.data[i].s = "nan"])
        ELSE IF kind # "O" THEN
            Array(DTYPE_BOOL, array.shape, [i \in 1..n |-> FALSE])
        ELSE
            Array(DTYPE_BOOL, array.shape,
                  [i \in 1..n |-> ~PyEq(array.data[i], array.data[i])
                                    \/ PyEq(array.data[i], None)])

isna_array(array) ==
    LET kind == array.dtype.kind
        n == Len(array.data)
    IN  IF kind \in DTYPE_NAN_KIND THEN
            Array(DTYPE_BOOL, array.shape, [i \in 1..n |-> array.data[i].s = "nan"])
        ELSE IF kind \in DTYPE_NAT_KIND THEN
            Array(DTYPE_BOOL, array.shape, [i \in 1..n |-> array.data[i].s = "nat"])
        ELSE IF kind # "O" THEN
            Array(DTYPE_BOOL, array.shape, [i \in 1..n |-> FALSE])
        ELSE
            Array(DTYPE_BOOL, array.shape,
                  [i \in 1..n |-> ~PyEq(array.data[i], array.data[i])
                                    \/ PyEq(array.data[i], None)])

\* dtype_to_na(dtype) is called on any dtype; the null tests then take its value.
InitNa ==
    /\ pc = "call"
    /\ \E dtype \in Dtypes : args = [fn |-> "dtype_to_na", dtype |-> dtype]
    /\ locals = NoLocals
    /\ ret = NoRet
    /\ mem = NoMem

DtypeToNa ==
    /\ pc = "call"
    /\ args.fn = "dtype_to_na"
    /\ ret' = dtype_to_na(args.dtype)
    /\ pc' = "done"
    /\ UNCHANGED <<args, locals, mem>>

\* isna_element(na) and isna_array(np.full(1, na, dtype)) on the value returned.
IsnaOfNa ==
    /\ pc = "done"
    /\ args.fn = "dtype_to_na"
    /\ ret.t # "NotImplementedError"
    /\ locals' = [isna_element |-> isna_element(ret),
                  isna_array |-> isna_array(Array(args.dtype, <<1>>, <<ret>>)).data[1]]
    /\ pc' = "tested"
    /\ UNCHANGED <<args, ret, mem>>

NextNa == DtypeToNa \/ IsnaOfNa

SpecNa == InitNa /\ [][NextNa]_vars

NaReturned == pc \in {"done", "tested"} /\ args.fn = "dtype_to_na"

\* C6: dtype_to_na returns 0 for every signed or unsigned integer dtype, False
\* for boolean, NaN for float and complex, None for object, the empty string for
\* string-kind dtypes, and raises NotImplementedError for a kind it does not
\* know, such as void.
C6_NaTable ==
    NaReturned =>
        LET kind == args.dtype.kind
        IN  /\ kind \in {"i", "u"} => ret = Value("int", 0)
            /\ kind = "b" => ret = Value("bool", 0)
            /\ kind \in {"f", "c"} => ret.t = "float" /\ ret.s = "nan"
            /\ kind = "O" => ret = None
            /\ kind \in {"U", "S"} => ret = Value("str", 0)
            /\ kind \notin {"i", "u", "b", "f", "c", "O", "U", "S", "M", "m"} =>
                    ret = RaiseValue("NotImplementedError")

C6_Witness ==
    /\ NaReturned
    /\ args.dtype = Dtype("V", 1)
    /\ ret = RaiseValue("NotImplementedError")

\* C7: for every datetime and every timedelta dtype, dtype_to_na returns a
\* not-a-time sentinel: a value that isna_element and isna_array class as missing.
C7_NatIsNull ==
    pc = "tested" /\ args.fn = "dtype_to_na" /\ args.dtype.kind \in {"M", "m"} =>
        locals.isna_element /\ locals.isna_array

(***************************************************************************)
(* isna_array on arrays of every kind                                      *)
(***************************************************************************)
\* The scalars an array of a kind holds.
ValuesOf(kind) ==
    CASE kind = "b" -> {Value("bool", 0), Value("bool", 1)}
      [] kind \in DTYPE_INT_KIND -> {Value("int", 0), Value("int", 1)}
      [] kind = "f" -> {Value("float", 0), Value("float", 1), NAN("float")}
      [] kind = "c" -> {Value("complex", 0), NAN("complex")}
      [] kind = "M" -> {Value("datetime64", 0), NAT}
      [] kind = "m" -> {Value("timedelta64", 0), [NAT EXCEPT !.t = "timedelta64"]}
      [] kind \in DTYPE_STR_KIND -> {Value("str", 0), Value("str", 1)}
      [] kind = "V" -> {Value("void", 0)}
      [] OTHER -> {None, Value("int", 0), Value("float", 1), NAN("float"),
                   Value("str", 1), NAT, EMPTY_TIMEDELTA}

ArrayDtypes ==
    {DTYPE_BOOL, DTYPE_OBJECT, Dtype("i", 8), Dtype("u", 1), Dtype("f", 8), Dtype("f", 4),
     Dtype("c", 16), Dtype("M", 4), Dtype("m", 7), Dtype("U", 1), Dtype("S", 1), Dtype("V", 1)}

\* The shapes of one or two dimensions with n elements.
ShapesOf(n) == {<<n>>} \cup {sh \in (1..n) \X (1..n) : sh[1] * sh[2] = n}

InitIsna ==
    /\ pc = "call"
    /\ \E dtype \in ArrayDtypes : \E data \in SeqsUpTo(ValuesOf(dtype.kind), MaxLen) :
        \E shape \in ShapesOf(Len(data)) :
            args = [fn |-> "isna_array", array |-> Array(dtype, shape, data)]
    /\ locals = NoLocals
    /\ ret = NoRet
    /\ mem = NoMem

IsnaArray ==
    /\ pc = "call"
    /\ args.fn = "isna_array"
    /\ ret' = isna_array(args.array)
    /\ pc' = "done"
    /\ UNCHANGED <<args, locals, mem>>

SpecIsna == InitIsna /\ [][IsnaArray]_vars

\* C8: isna_array returns a boolean array of the input's shape, True exactly where
\* the element is NaN (float and complex arrays), not-a-time (datetime and
\* timedelta arrays), or None or unequal to itself (object arrays); every entry
\* is False for integer, boolean and string arrays.
C8_IsnaArray ==
    pc = "done" /\ args.fn = "isna_array" =>
        LET array == args.array
            kind == array.dtype.kind
        IN  /\ ret.dtype = DTYPE_BOOL
            /\ ret.shape = array.shape
            /\ Len(ret.data) = Len(array.data)
            /\ \A i \in 1..Len(array.data) :
                LET x == array.data[i]
                IN  /\ kind \in {"f", "c"} => (ret.data[i] <=> x.s = "nan")
                    /\ kind \in {"M", "m"} => (ret.data[i] <=> x.s = "nat")
                    /\ kind = "O" => (ret.data[i] <=> (x.t = "NoneType" \/ x.s # ""))
                    /\ kind \in {"i", "u", "b", "U", "S"} => ret.data[i] = FALSE

\* A datetime array of two dimensions with a not-a-time and a time in it.
C8_Witness ==
    /\ pc = "done" /\ args.fn = "isna_array"
    /\ args.array.dtype.kind = "M"
    /\ Len(args.array.shape) = 2
    /\ \E i, j \in 1..Len(args.array.data) : ret.data[i] /\ ~ret.data[j]

(***************************************************************************)
(* roll_1d, roll_2d.  mem is the storage allocated so far, mem[k] the      *)
(* elements of storage k: a sequence for one dimension, a sequence of rows *)
(* for two.  An ndarray is the handle [store, dtype, shape]; two arrays    *)
(* share storage exactly when their handles name the same store.           *)
(***************************************************************************)
\* What np.empty leaves in an element it has not been given a value for.
Uninit == -1

Handle(store, dtype, shape) == [store |-> store, dtype |-> dtype, shape |-> shape]

RaisedHandle(exc) == Handle(0, Raise(exc), <<>>)

\* A call's outcome: the storage after it and the ndarray returned.
Outcome(m, r) == [mem |-> m, ret |-> r]

\* array.copy()
ndarray_copy(m, array) ==
    Outcome(Append(m, m[array.store]), [array EXCEPT !.store = Len(m) + 1])

\* Python's reading of a slice bound against a length n.
PyBound(i, n) == IF i < 0 THEN Max(i + n, 0) ELSE IF i > n THEN n ELSE i

\* data[start:stop]
GetSlice(data, start, stop) ==
    SubSeq(data, PyBound(start, Len(data)) + 1, PyBound(stop, Len(data)))

\* data[start:stop] = vals, for vals of the slice's length.
SetSlice(data, start, stop, vals) ==
    LET a == PyBound(start, Len(data))
        b == PyBound(stop, Len(data))
    IN  [i \in 1..Len(data) |-> IF a < i /\ i <= b /\ i - a <= Len(vals)
                                  THEN vals[i - a]
                                  ELSE data[i]]

\* roll_1d returning the array itself where nothing moves.
roll_1d_nocopy(m, array, shift) ==
    LET data == m[array.store]
        size == Len(data)
    IN  IF size <= 1 THEN Outcome(m, array)
        ELSE IF shift % size = 0 THEN Outcome(m, array)
        ELSE LET sh == shift % size
                 empty == [i \in 1..size |-> Uninit]
                 post1 == SetSlice(empty, 0, sh, GetSlice(data, -sh, size))
                 post2 == SetSlice(post1, sh, size, GetSlice(data, 0, -sh))
             IN  Outcome(Append(m, post2), [array EXCEPT !.store = Len(m) + 1])

\* roll_1d without the reduction of shift modulo size.
roll_1d_nomod(m, array, shift) ==
    LET data == m[array.store]
        size == Len(data)
    IN  IF size <= 1 THEN ndarray_copy(m, array)
        ELSE IF shift = 0 THEN ndarray_copy(m, array)
        ELSE LET sh == shift
                 empty == [i \in 1..size |-> Uninit]
                 post1 == SetSlice(empty, 0, sh, GetSlice(data, -sh, size))
                 post2 == SetSlice(post1, sh, size, GetSlice(data, 0, -sh))
             IN  Outcome(Append(m, post2), [array EXCEPT !.store = Len(m) + 1])

roll_1d(m, array, shift) ==
    LET data == m[array.store]
        size == Len(data)
    IN  IF size <= 1 THEN ndarray_copy(m, array)
        ELSE IF shift % size = 0 THEN ndarray_copy(m, array)
        ELSE LET sh == shift % size
                 empty == [i \in 1..size |-> Uninit]
                 post1 == SetSlice(empty, 0, sh, GetSlice(data, -sh, size))
                 post2 == SetSlice(post1, sh, size, GetSlice(data, 0, -sh))
             IN  Outcome(Append(m, post2), [array EXCEPT !.store = Len(m) + 1])

\* roll_2d allocates post before it looks at the axis; post is the storage
\* after m's last one, and a copy returned instead comes after post.
roll_2d(m, array, shift, axis) ==
    LET rows == m[array.store]
        nrows == array.shape[1]
        ncols == array.shape[2]
        empty == [r \in 1..nrows |-> [c \in 1..ncols |-> Uninit]]
        m1 == Append(m, empty)
        post == [array EXCEPT !.store = Len(m) + 1]
    IN  IF axis = 0 THEN
            LET size == nrows
            IN  IF size <= 1 THEN ndarray_copy(m1, array)
                ELSE IF shift % size = 0 THEN ndarray_copy(m1, array)
                ELSE LET sh == shift % size
                         post1 == SetSlice(empty, 0, sh, GetSlice(rows, -sh, size))
                         post2 == SetSlice(post1, sh, size, GetSlice(rows, 0, -sh))
                     IN  Outcome(Append(m, post2), post)
        ELSE IF axis = 1 THEN
            LET size == ncols
            IN  IF size <= 1 THEN ndarray_copy(m1, array)
                ELSE IF shift % size = 0 THEN ndarray_copy(m1, array)
                ELSE LET sh == shift % size
                         post2 == [r \in 1..nrows |->
                                    SetSlice(SetSlice(empty[r], 0, sh,
                                                      GetSlice(rows[r], -sh, size)),
                                             sh, size, GetSlice(rows[r], 0, -sh))]
                     IN  Outcome(Append(m, post2), post)
        ELSE Outcome(m1, RaisedHandle("NotImplementedError"))

Elements == {0, 1, 2}
Cells == {0, 1}

Shifts == (0 - MaxShift)..MaxShift

\* roll_1d(array, shift) is called on an array of integers.
InitRoll1d ==
    /\ pc = "call"
    /\ \E data \in SeqsUpTo(Elements, MaxLen), shift \in Shifts :
        /\ mem = <<data>>
        /\ args = [fn |-> "roll_1d", array |-> Handle(1, Dtype("i", 8), <<Len(data)>>),
                   shift |-> shift, axis |-> 0, before |-> data]
    /\ locals = NoLocals
    /\ ret = NoRet

\* roll_2d(array, shift, axis) is called on a table of integers.
InitRoll2d ==
    /\ pc = "call"
    /\ \E nrows \in 0..MaxRows, ncols \in 0..MaxCols :
        \E rows \in [1..nrows -> [1..ncols -> Cells]], shift \in Shifts, axis \in 0..2 :
            /\ mem = <<rows>>
            /\ args = [fn |-> "roll_2d", array |-> Handle(1, Dtype("i", 8), <<nrows, ncols>>),
                       shift |-> shift, axis |-> axis, before |-> rows]
    /\ locals = NoLocals
    /\ ret = NoRet

Roll1d ==
    /\ pc = "call"
    /\ args.fn = "roll_1d"
    /\ LET out == roll_1d(mem, args.array, args.shift)
       IN  mem' = out.mem /\ ret' = out.ret
    /\ pc' = "done"
    /\ UNCHANGED <<args, locals>>

Roll2d ==
    /\ pc = "call"
    /\ args.fn = "roll_2d"
    /\ LET out == roll_2d(mem, args.array, args.shift, args.axis)
       IN  mem' = out.mem /\ ret' = out.ret
    /\ pc' = "done"
    /\ UNCHANGED <<args, locals>>

NextRoll == Roll1d \/ Roll2d

SpecRoll == (InitRoll1d \/ InitRoll2d) /\ [][NextRoll]_vars

\* C9: roll_1d is a circular shift, periodic in the array length n: for every
\* shift, roll_1d(arr, shift) equals roll_1d(arr, shift + n), and arr[i] ends at
\* position (i + shift) mod n.
C9_Roll1d ==
    pc = "done" /\ args.fn = "roll_1d" =>
        LET n == Len(args.before)
            post == mem[ret.store]
            again == roll_1d(<<args.before>>, args.array, args.shift + n)
        IN  /\ Len(post) = n
            /\ \A i \in 0..(n - 1) : post[((i + args.shift) % n) + 1] = args.before[i + 1]
            /\ post = again.mem[again.ret.store]

\* A shift left by more than the length, rolled for real.
C9_Witness ==
    /\ pc = "done" /\ args.fn = "roll_1d"
    /\ args.before = <<0, 1, 2>>
    /\ args.shift = 0 - 4
    /\ mem[ret.store] = <<1, 2, 0>>

\* The length of the axis that roll_1d or roll_2d shifts along.
AxisLength == IF args.fn = "roll_1d" THEN Len(args.before) ELSE args.array.shape[args.axis + 1]

Rolled == pc = "done" /\ args.fn \in {"roll_1d", "roll_2d"} /\ ret.store # 0

\* C10: roll_1d and roll_2d never return the input array or storage shared with
\* it, and leave the input unchanged; when the shift is congruent to 0 modulo the
\* axis length, or that length is 0 or 1, the result is a fresh copy equal to
\* the input.
C10_FreshCopy ==
    Rolled =>
        /\ ret.store # args.array.store
        /\ ret.store \in 1..Len(mem)
        /\ mem[args.array.store] = args.before
        /\ ret.shape = args.array.shape
        /\ (AxisLength <= 1 \/ args.shift % AxisLength = 0) => mem[ret.store] = args.before

\* A whole turn of a table's columns: equal contents in storage of its own.
C10_Witness ==
    /\ Rolled
    /\ args.fn = "roll_2d" /\ args.axis = 1
    /\ AxisLength = 2 /\ args.shift = 0 - 2
    /\ mem[ret.store] = args.before
    /\ ret.store # args.array.store
    /\ \E r \in 1..Len(args.before) : args.before[r][1] # args.before[r][2]

(***************************************************************************)
(* full_for_fill, array_shift                                              *)
(***************************************************************************)
\* np.array(value).dtype for a scalar.
dtype_of(value) ==
    CASE value.t = "bool" -> DTYPE_BOOL
      [] value.t = "int" -> Dtype("i", 8)
      [] value.t = "float" -> Dtype("f", 8)
      [] value.t = "complex" -> Dtype("c", 16)
      [] value.t = "str" -> Dtype("U", 1)
      [] value.t = "datetime64" -> Dtype("M", 14)
      [] value.t = "timedelta64" -> Dtype("m", 14)
      [] OTHER -> DTYPE_OBJECT

\* The scalar type of the elements of an array of a dtype.
TypeOfKind(kind) ==
    CASE kind = "b" -> "bool"
      [] kind \in DTYPE_INT_KIND -> "int"
      [] kind = "f" -> "float"
      [] kind = "c" -> "complex"
      [] kind \in DTYPE_STR_KIND -> "str"
      [] kind = "M" -> "datetime64"
      [] kind = "m" -> "timedelta64"
      [] OTHER -> "object"

\* A scalar stored into an array of a dtype: an object array keeps the scalar,
\* any other array holds it as its own element type.
astype(value, dtype) ==
    IF dtype.kind = "O" THEN value ELSE [value EXCEPT !.t = TypeOfKind(dtype.kind)]

CastSeq(data, dtype) == [i \in 1..Len(data) |-> astype(data[i], dtype)]

\* The elements of np.full(shape, fill_value, dtype): a sequence for one
\* dimension, a sequence of rows for two.
np_full(shape, fill_value, dtype) ==
    IF Len(shape) = 1
        THEN [i \in 1..shape[1] |-> astype(fill_value, dtype)]
        ELSE [r \in 1..shape[1] |-> [c \in 1..shape[2] |-> astype(fill_value, dtype)]]

\* full_for_fill: the array's dtype resolved with the fill value's.
full_for_fill(m, dtype, shape, fill_value) ==
    LET resolved == resolve_dtype(dtype, dtype_of(fill_value))
    IN  Outcome(Append(m, np_full(shape, fill_value, resolved)),
                Handle(Len(m) + 1, resolved, shape))

\* Python's shift % -size for size > 0.
ModNegative(shift, size) == 0 - ((0 - shift) % size)

array_shift(m, array, shift, axis, wrap, fill_value) ==
    LET data == m[array.store]
        size == array.shape[axis + 1]
        filled == full_for_fill(m, array.dtype, array.shape, fill_value)
        dtype == filled.ret.dtype
        result == filled.mem[filled.ret.store]
        \* result[shift:] = array[:-shift], or result[:shift] = array[-shift:]
        moved(seq, full) ==
            IF shift > 0
                THEN SetSlice(full, shift, Len(full), CastSeq(GetSlice(seq, 0, 0 - shift), dtype))
                ELSE SetSlice(full, 0, shift, CastSeq(GetSlice(seq, 0 - shift, Len(seq)), dtype))
        moved_rows(rows, full) ==
            IF shift > 0
                THEN SetSlice(full, shift, Len(full),
                              [r \in 1..Len(GetSlice(rows, 0, 0 - shift)) |->
                                    CastSeq(GetSlice(rows, 0, 0 - shift)[r], dtype)])
                ELSE SetSlice(full, 0, shift,
                              [r \in 1..Len(GetSlice(rows, 0 - shift, Len(rows))) |->
                                    CastSeq(GetSlice(rows, 0 - shift, Len(rows))[r], dtype)])
    IN  \* shift % array.shape[axis] divides by zero on an empty axis
        IF shift # 0 /\ size = 0 THEN Outcome(m, RaisedHandle("ZeroDivisionError"))
        ELSE LET shift_mod == IF shift > 0 THEN shift % size
                              ELSE IF shift < 0 THEN ModNegative(shift, size)
                              ELSE 0
             IN  IF (~wrap /\ shift = 0) \/ (wrap /\ shift_mod = 0) THEN ndarray_copy(m, array)
                 ELSE IF wrap THEN
                    (IF Len(array.shape) = 1
                        THEN roll_1d(m, array, shift_mod)
                        ELSE roll_2d(m, array, shift_mod, axis))
                 ELSE IF Len(array.shape) = 1 THEN
                    Outcome(Append(m, moved(data, result)), filled.ret)
                 ELSE IF axis = 0 THEN
                    Outcome(Append(m, moved_rows(data, result)), filled.ret)
                 ELSE
                    Outcome(Append(m, [r \in 1..Len(data) |-> moved(data[r], result[r])]),
                            filled.ret)

\* The fill values and array dtypes array_shift is called with.
ShiftFills == {NAN("float"), None, Value("int", 9), Value("str", 1), Value("bool", 1)}
ShiftDtypes == {Dtype("i", 8), Dtype("f", 8)}

ElementsOf(dtype, S) == {Value(TypeOfKind(dtype.kind), k) : k \in S}

Shifts2d == (0 - (MaxRows + MaxCols))..(MaxRows + MaxCols)

\* array_shift(array, shift, axis, wrap, fill_value) on an array of one dimension.
InitShift1d ==
    /\ pc = "call"
    /\ \E dtype \in ShiftDtypes, shift \in Shifts, wrap \in BOOLEAN, fill_value \in ShiftFills :
        \E data \in SeqsUpTo(ElementsOf(dtype, Elements), MaxLen) :
            /\ mem = <<data>>
            /\ args = [fn |-> "array_shift", array |-> Handle(1, dtype, <<Len(data)>>),
                       shift |-> shift, axis |-> 0, wrap |-> wrap,
                       fill_value |-> fill_value, before |-> data]
    /\ locals = NoLocals
    /\ ret = NoRet

\* array_shift on a table, along its rows or its columns.
InitShift2d ==
    /\ pc = "call"
    /\ \E nrows \in 0..MaxRows, ncols \in 0..MaxCols, shift \in Shifts2d, axis \in {0, 1},
          wrap \in BOOLEAN, fill_value \in {NAN("float"), None} :
        \E rows \in [1..nrows -> [1..ncols -> ElementsOf(Dtype("i", 8), Cells)]] :
            /\ mem = <<rows>>
            /\ args = [fn |-> "array_shift",
                       array |-> Handle(1, Dtype("i", 8), <<nrows, ncols>>),
                       shift |-> shift, axis |-> axis, wrap |-> wrap,
                       fill_value |-> fill_value, before |-> rows]
    /\ locals = NoLocals
    /\ ret = NoRet

ArrayShift ==
    /\ pc = "call"
    /\ args.fn = "array_shift"
    /\ LET out == array_shift(mem, args.array, args.shift, args.axis, args.wrap,
                              args.fill_value)
       IN  mem' = out.mem /\ ret' = out.ret
    /\ pc' = "done"
    /\ UNCHANGED <<args, locals>>

SpecShift == (InitShift1d \/ InitShift2d) /\ [][ArrayShift]_vars

\* Two scalars that are the same value, whatever numeric type holds it.
SameValue(x, y) ==
    /\ x.v = y.v /\ x.s = y.s
    /\ x.t = y.t \/ (x.t \in PyNumbers /\ y.t \in PyNumbers)

\* The element of a sequence or of a table at position i along the axis, seen
\* from the other position j (the column of a row, the row of a column).
ElementAt(data, ndim, axis, i, j) ==
    IF ndim = 1 THEN data[i] ELSE IF axis = 0 THEN data[i][j] ELSE data[j][i]

\* The positions across the shifted axis: one for an array of one dimension.
Across == IF Len(args.array.shape) = 1 THEN {1}
          ELSE 1..args.array.shape[2 - args.axis]

\* C11: array_shift with wrap=False and shift s along an axis of length n returns
\* an array where position i holds the input's element at i - s when
\* 0 <= i - s < n and fill_value otherwise (all of them when |s| >= n); the
\* result dtype is resolve_dtype(input dtype, dtype of fill_value); the input is
\* not modified.
C11_ShiftFill ==
    pc = "done" /\ args.fn = "array_shift" /\ ~args.wrap =>
        LET n == args.array.shape[args.axis + 1]
            ndim == Len(args.array.shape)
            s == args.shift
        IN  /\ ret.store # 0
            /\ ret.shape = args.array.shape
            /\ ret.dtype = resolve_dtype(args.array.dtype, dtype_of(args.fill_value))
            /\ mem[args.array.store] = args.before
            /\ \A i \in 0..(n - 1), j \in Across :
                LET x == ElementAt(mem[ret.store], ndim, args.axis, i + 1, j)
                IN  IF 0 <= i - s /\ i - s < n
                        THEN SameValue(x, ElementAt(args.before, ndim, args.axis, i - s + 1, j))
                        ELSE SameValue(x, args.fill_value)

(***************************************************************************)
(* array_to_duplicated                                                     *)
(***************************************************************************)
RaisedArray(exc) == Array(Raise(exc), <<>>, <<>>)

\* Python's < is defined between two numbers and between two strings.
Comparable(x, y) ==
    \/ x.t \in PyNumbers /\ y.t \in PyNumbers
    \/ x.t = "str" /\ y.t = "str"

\* The order np.lexsort gives to two rows (or columns) of numbers: the first
\* entry counts most. A single value is ordered as a row of one.
LexLess(x, y) ==
    \E k \in 1..Len(x) : x[k] < y[k] /\ \A l \in 1..(k - 1) : x[l] = y[l]

\* The numbers a value, or a row of values, is ordered by.
SortKeys(values) == [i \in 1..Len(values) |-> <<values[i].v>>]
SortKeysOfVectors(vs) == [i \in 1..Len(vs) |-> [k \in 1..Len(vs[i]) |-> vs[i][k].v]]

\* A stable argsort: the positions (counted from 1) of the keys in ascending
\* order, equal keys in their original order.
argsort(keys) ==
    LET n == Len(keys)
        rank(i) == Cardinality({j \in 1..n : \/ LexLess(keys[j], keys[i])
                                             \/ keys[j] = keys[i] /\ j < i}) + 1
    IN  [k \in 1..n |-> CHOOSE i \in 1..n : rank(i) = k]

\* The rows of a table for axis 0, its columns for axis 1.
Vectors(rows, shape, axis) ==
    IF axis = 0 THEN rows
    ELSE [c \in 1..shape[2] |-> [r \in 1..shape[1] |-> rows[r][c]]]

\* The dictionary key of a value: equal numbers hash alike; a row or column is
\* keyed as the tuple of its values.
HashKey(v) == IF v.t \in PyNumbers THEN [v EXCEPT !.t = "number"] ELSE v

to_hashable(array, axis) ==
    IF Len(array.shape) = 1
        THEN [i \in 1..Len(array.data) |-> HashKey(array.data[i])]
        ELSE LET vs == Vectors(array.data, array.shape, axis)
             IN  [i \in 1..Len(vs) |-> [k \in 1..Len(vs[i]) |-> HashKey(vs[i][k])]]

\* The loop of _array_to_duplicated_hashable from position idx on; the three
\* dictionaries are sets of <<key, position>>.
RECURSIVE hashable_loop(_, _, _, _, _, _)
hashable_loop(values, idx, is_dupe, unique_to_first, dupe_to_first, dupe_to_last) ==
    IF idx > Len(values)
        THEN [is_dupe |-> is_dupe, dupe_to_first |-> dupe_to_first,
              dupe_to_last |-> dupe_to_last]
    ELSE LET v == values[idx]
             seen == {e \in unique_to_first : e[1] = v}
         IN  IF seen = {}
                THEN hashable_loop(values, idx + 1, is_dupe,
                                   unique_to_first \cup {<<v, idx>>},
                                   dupe_to_first, dupe_to_last)
                ELSE hashable_loop(values, idx + 1, [is_dupe EXCEPT ![idx] = TRUE],
                                   unique_to_first,
                                   IF \E e \in dupe_to_first : e[1] = v
                                        THEN dupe_to_first
                                        ELSE dupe_to_first \cup seen,
                                   {e \in dupe_to_last : e[1] # v} \cup {<<v, idx>>})

\* The hashable algorithm without its last step, the first occurrences.
_array_to_duplicated_hashable_nofirst(array, axis, exclude_first, exclude_last) ==
    LET len_axis == array.shape[axis + 1]
        values == to_hashable(array, axis)
        end == hashable_loop(values, 1, [i \in 1..len_axis |-> FALSE], {}, {}, {})
        lasts == {e[2] : e \in end.dupe_to_last}
    IN  Array(DTYPE_BOOL, <<len_axis>>,
              [i \in 1..len_axis |-> IF exclude_last /\ i \in lasts THEN FALSE
                                     ELSE end.is_dupe[i]])

_array_to_duplicated_hashable(array, axis, exclude_first, exclude_last) ==
    LET len_axis == array.shape[axis + 1]
        values == to_hashable(array, axis)
        end == hashable_loop(values, 1, [i \in 1..len_axis |-> FALSE], {}, {}, {})
        lasts == {e[2] : e \in end.dupe_to_last}
        firsts == {e[2] : e \in end.dupe_to_first}
        is_dupe1 == [i \in 1..len_axis |-> IF exclude_last /\ i \in lasts THEN FALSE
                                           ELSE end.is_dupe[i]]
        is_dupe2 == [i \in 1..len_axis |-> IF ~exclude_first /\ i \in firsts THEN TRUE
                                           ELSE is_dupe1[i]]
    IN  Array(DTYPE_BOOL, <<len_axis>>, is_dupe2)

\* roll_1d and roll_2d on values: the contents of the array they return.
rolled_1d(data, shift) ==
    LET out == roll_1d(<<data>>, Handle(1, DTYPE_OBJECT, <<Len(data)>>), shift)
    IN  out.mem[out.ret.store]

rolled_2d(rows, shape, shift, axis) ==
    LET out == roll_2d(<<rows>>, Handle(1, DTYPE_OBJECT, shape), shift, axis)
    IN  out.mem[out.ret.store]

\* Sorting raises TypeError as soon as two elements that have no order meet.
Sortable(array) ==
    \/ Len(array.shape) = 2
    \/ Len(array.data) <= 1
    \/ \A i, j \in 1..Len(array.data) : Comparable(array.data[i], array.data[j])

\* The flags of the sorted array, from f_flags to the undoing of the sort.
duplicated_flags(f_flags, o_idx, exclude_first, exclude_last) ==
    LET n == Len(f_flags)
    IN  IF ~(\E i \in 1..n : f_flags[i]) THEN [i \in 1..n |-> FALSE]
        ELSE LET f == [f_flags EXCEPT ![1] = FALSE]
                 l_flags == rolled_1d(f, 0 - 1)
                 dupes == IF exclude_first /\ ~exclude_last THEN f
                          ELSE IF ~exclude_first /\ exclude_last THEN l_flags
                          ELSE IF ~exclude_first /\ ~exclude_last
                                THEN [i \in 1..n |-> f[i] \/ l_flags[i]]
                          ELSE [i \in 1..n |-> f[i] /\ l_flags[i]]
                 r_idx == argsort([k \in 1..n |-> <<o_idx[k]>>])
             IN  [i \in 1..n |-> dupes[r_idx[i]]]

\* The sortable algorithm with an argsort that is not undone.
_array_to_duplicated_sortable_noundo(array, axis, exclude_first, exclude_last) ==
    IF ~Sortable(array) THEN RaisedArray("TypeError")
    ELSE IF Len(array.shape) = 1 THEN
        LET o_idx == argsort(SortKeys(array.data))
            array_sorted == [k \in 1..Len(o_idx) |-> array.data[o_idx[k]]]
            rolled == rolled_1d(array_sorted, 1)
            f_flags == [k \in 1..Len(o_idx) |-> PyEq(array_sorted[k], rolled[k])]
        IN  Array(DTYPE_BOOL, <<Len(f_flags)>>,
                  duplicated_flags(f_flags, [k \in 1..Len(o_idx) |-> k],
                                   exclude_first, exclude_last))
    ELSE
        LET vs == Vectors(array.data, array.shape, axis)
            o_idx == argsort(SortKeysOfVectors(vs))
            sorted_vs == [k \in 1..Len(o_idx) |-> vs[o_idx[k]]]
            array_sorted == Vectors(sorted_vs, <<Len(sorted_vs), array.shape[2 - axis]>>, axis)
            rolled == rolled_2d(array_sorted, array.shape, 1, axis)
            f_flags == [k \in 1..Len(o_idx) |->
                            \A x \in 1..array.shape[2 - axis] :
                                IF axis = 0 THEN PyEq(array_sorted[k][x], rolled[k][x])
                                ELSE PyEq(array_sorted[x][k], rolled[x][k])]
        IN  Array(DTYPE_BOOL, <<Len(f_flags)>>,
                  duplicated_flags(f_flags, [k \in 1..Len(o_idx) |-> k],
                                   exclude_first, exclude_last))

_array_to_duplicated_sortable(array, axis, exclude_first, exclude_last) ==
    IF ~Sortable(array) THEN RaisedArray("TypeError")
    ELSE IF Len(array.shape) = 1 THEN
        LET o_idx == argsort(SortKeys(array.data))
            array_sorted == [k \in 1..Len(o_idx) |-> array.data[o_idx[k]]]
            rolled == rolled_1d(array_sorted, 1)
            f_flags == [k \in 1..Len(o_idx) |-> PyEq(array_sorted[k], rolled[k])]
        IN  Array(DTYPE_BOOL, <<Len(f_flags)>>,
                  duplicated_flags(f_flags, o_idx, exclude_first, exclude_last))
    ELSE
        \* axis 0 sorts the rows, axis 1 the columns; match.all runs over the
        \* opposite axis
        LET vs == Vectors(array.data, array.shape, axis)
            o_idx == argsort(SortKeysOfVectors(vs))
            sorted_vs == [k \in 1..Len(o_idx) |-> vs[o_idx[k]]]
            array_sorted == Vectors(sorted_vs, <<Len(sorted_vs), array.shape[2 - axis]>>, axis)
            rolled == rolled_2d(array_sorted, array.shape, 1, axis)
            f_flags == [k \in 1..Len(o_idx) |->
                            \A x \in 1..array.shape[2 - axis] :
                                IF axis = 0 THEN PyEq(array_sorted[k][x], rolled[k][x])
                                ELSE PyEq(array_sorted[x][k], rolled[x][k])]
        IN  Array(DTYPE_BOOL, <<Len(f_flags)>>,
                  duplicated_flags(f_flags, o_idx, exclude_first, exclude_last))

array_to_duplicated(array, axis, exclude_first, exclude_last) ==
    LET sorted == _array_to_duplicated_sortable(array, axis, exclude_first, exclude_last)
    IN  IF sorted.dtype = Raise("TypeError")
            THEN _array_to_duplicated_hashable(array, axis, exclude_first, exclude_last)
            ELSE sorted

\* The values of the arrays searched for duplicates: integers, a string that
\* no integer equals, and None.
MixedValues == {Value("int", 0), Value("int", 1), Value("str", 1), None}

DuplicatedFns ==
    {"array_to_duplicated", "_array_to_duplicated_sortable", "_array_to_duplicated_hashable"}

\* A call on an array of one dimension: any array for array_to_duplicated, one
\* that can be sorted for the two algorithms called on their own.
InitDuplicated1d ==
    /\ pc = "call"
    /\ \E fn \in DuplicatedFns, exclude_first \in BOOLEAN, exclude_last \in BOOLEAN :
        \E data \in SeqsUpTo(MixedValues, MaxLen)
                        \cup SeqsUpTo(ElementsOf(Dtype("i", 8), Elements), MaxLen) :
            LET array == Array(IF \A i \in 1..Len(data) : data[i].t = "int"
                                    THEN Dtype("i", 8) ELSE DTYPE_OBJECT,
                               <<Len(data)>>, data)
            IN  /\ fn = "array_to_duplicated" \/ Sortable(array)
                /\ args = [fn |-> fn, array |-> array, axis |-> 0,
                           exclude_first |-> exclude_first, exclude_last |-> exclude_last]
    /\ locals = NoLocals
    /\ ret = NoRet
    /\ mem = NoMem

\* A call on a table of integers, for its rows or its columns.
InitDuplicated2d ==
    /\ pc = "call"
    /\ \E fn \in DuplicatedFns, exclude_first \in BOOLEAN, exclude_last \in BOOLEAN,
          nrows \in 1..MaxRows, ncols \in 1..MaxCols, axis \in {0, 1} :
        \E rows \in [1..nrows -> [1..ncols -> ElementsOf(Dtype("i", 8), Cells)]] :
            args = [fn |-> fn, array |-> Array(Dtype("i", 8), <<nrows, ncols>>, rows),
                    axis |-> axis, exclude_first |-> exclude_first,
                    exclude_last |-> exclude_last]
    /\ locals = NoLocals
    /\ ret = NoRet
    /\ mem = NoMem

ArrayToDuplicated ==
    /\ pc = "call"
    /\ args.fn = "array_to_duplicated"
    /\ ret' = array_to_duplicated(args.array, args.axis, args.exclude_first,
                                  args.exclude_last)
    /\ pc' = "done"
    /\ UNCHANGED <<args, locals, mem>>

ArrayToDuplicatedSortable ==
    /\ pc = "call"
    /\ args.fn = "_array_to_duplicated_sortable"
    /\ ret' = _array_to_duplicated_sortable(args.array, args.axis, args.exclude_first,
                                            args.exclude_last)
    /\ pc' = "done"
    /\ UNCHANGED <<args, locals, mem>>

ArrayToDuplicatedHashable ==
    /\ pc = "call"
    /\ args.fn = "_array_to_duplicated_hashable"
    /\ ret' = _array_to_duplicated_hashable(args.array, args.axis, args.exclude_first,
                                            args.exclude_last)
    /\ pc' = "done"
    /\ UNCHANGED <<args, locals, mem>>

NextDuplicated == ArrayToDuplicated \/ ArrayToDuplicatedSortable \/ ArrayToDuplicatedHashable

SpecDuplicated == (InitDuplicated1d \/ InitDuplicated2d) /\ [][NextDuplicated]_vars

\* The positions of a sequence that hold a value equal to the one at i.
Occurrences(data, i) == {j \in 1..Len(data) : PyEq(data[j], data[i])}

\* C12: for an array of one dimension array_to_duplicated flags position i
\* exactly when the value at i occurs at least twice in the array and i is not
\* the first occurrence if exclude_first and not the last if exclude_last.
C12_Duplicated ==
    pc = "done" /\ args.fn = "array_to_duplicated" /\ Len(args.array.shape) = 1 =>
        /\ ret.dtype = DTYPE_BOOL
        /\ ret.shape = args.array.shape
        /\ \A i \in 1..Len(args.array.data) :
            LET occ == Occurrences(args.array.data, i)
            IN  ret.data[i] <=>
                    /\ Cardinality(occ) >= 2
                    /\ args.exclude_first => \E j \in occ : j < i
                    /\ args.exclude_last => \E j \in occ : j > i

\* [None, 0, None] cannot be sorted; of the pair of None only the first stays
\* flagged once the last is excluded.
C12_Witness ==
    /\ pc = "done" /\ args.fn = "array_to_duplicated"
    /\ args.array.data = <<None, Value("int", 0), None>>
    /\ ~args.exclude_first /\ args.exclude_last
    /\ ret.data = <<TRUE, FALSE, FALSE>>

\* C13: on every array that both can handle (all integers, for one) the
\* sortable and the hashable algorithm return the same boolean array, for
\* rows and for columns and for all four settings of exclude_first and
\* exclude_last.
C13_Agree ==
    /\ pc = "done" /\ args.fn = "_array_to_duplicated_sortable" =>
        ret = _array_to_duplicated_hashable(args.array, args.axis, args.exclude_first,
                                            args.exclude_last)
    /\ pc = "done" /\ args.fn = "_array_to_duplicated_hashable" =>
        ret = _array_to_duplicated_sortable(args.array, args.axis, args.exclude_first,
                                            args.exclude_last)

\* Two equal columns of a table: only the later one is flagged when the first
\* is excluded.
C13_Witness ==
    /\ pc = "done" /\ args.fn = "_array_to_duplicated_sortable"
    /\ args.axis = 1 /\ args.array.shape = <<2, 2>>
    /\ args.exclude_first /\ ~args.exclude_last
    /\ ret.data = <<FALSE, TRUE>>

(***************************************************************************)
(* union1d, intersect1d, union2d, intersect2d, ufunc_set_iter              *)
(***************************************************************************)
MaxSetLen == 2

Range(seq) == {seq[i] : i \in 1..Len(seq)}

Min(a, b) == IF a <= b THEN a ELSE b

\* A new array on the heap.
Fresh(m, data, dtype, shape) == Outcome(Append(m, data), Handle(Len(m) + 1, dtype, shape))

\* (array == other).all() for two arrays of one dimension and one length, or
\* two tables of one shape.
ArraysEqual(a, o, ndim) ==
    IF ndim = 1
        THEN \A i \in 1..Len(a) : PyEq(a[i], o[i])
        ELSE \A r \in 1..Len(a) : \A c \in 1..Len(a[r]) : PyEq(a[r][c], o[r][c])

\* Every order a set can be iterated in.
Orderings(S) ==
    {f \in [1..Cardinality(S) -> S] : \A x \in S : \E i \in 1..Cardinality(S) : f[i] = x}

\* Python's < between two tuples, where it is defined.
TupleLess(x, y) ==
    \/ \E k \in 1..Min(Len(x), Len(y)) :
            /\ x[k].v < y[k].v
            /\ \A l \in 1..(k - 1) : x[l] = y[l]
    \/ /\ Len(x) < Len(y)
       /\ \A l \in 1..Len(x) : x[l] = y[l]

\* sorted() raises TypeError when two tuples first differ in values that have
\* no order.
TupleComparable(x, y) ==
    \A k \in 1..Min(Len(x), Len(y)) :
        (x[k] # y[k] /\ \A l \in 1..(k - 1) : x[l] = y[l]) => Comparable(x[k], y[k])

\* The values of a set in ascending order.
SortedValues(S) ==
    [k \in 1..Cardinality(S) |->
        CHOOSE x \in S : Cardinality({y \in S : y.v < x.v}) = k - 1]

\* The rows of a set in ascending order.
SortedTuples(S) ==
    [k \in 1..Cardinality(S) |->
        CHOOSE x \in S : Cardinality({y \in S : TupleLess(y, x)}) = k - 1]

\* np.intersect1d called where np.union1d is asked for.
np_set_1d_intersect(is_union, a, o, dtype) ==
    SortedValues(Range(CastSeq(a, dtype)) \cap Range(CastSeq(o, dtype)))

\* np.union1d and np.intersect1d: both operands in the common dtype, each
\* value once, ascending.
np_set_1d(is_union, a, o, dtype) ==
    LET as == Range(CastSeq(a, dtype))
        os == Range(CastSeq(o, dtype))
    IN  SortedValues(IF is_union THEN as \cup os ELSE as \cap os)

\* The same on the rows of two tables.
np_set_2d(is_union, a, o, dtype) ==
    LET as == {CastSeq(a[r], dtype) : r \in 1..Len(a)}
        os == {CastSeq(o[r], dtype) : r \in 1..Len(o)}
    IN  SortedTuples(IF is_union THEN as \cup os ELSE as \cap os)

\* The frozenset branch of _ufunc_set_1d joining the operands end to end instead
\* of building sets.
set_compare_1d_concat(m, is_union, a, o, dtype) ==
    LET values == IF is_union THEN a \o o ELSE SelectSeq(a, LAMBDA x : x \in Range(o))
    IN  {Fresh(m, values, dtype, <<Len(values)>>)}

\* The frozenset branch of _ufunc_set_1d: the values of either (or both)
\* operands, in the order the set happens to iterate.
set_compare_1d(m, is_union, a, o, dtype) ==
    LET result == IF is_union THEN Range(a) \cup Range(o) ELSE Range(a) \cap Range(o)
    IN  {Fresh(m, values, dtype, <<Len(values)>>) : values \in Orderings(result)}

\* The optimizations for empty operands, without the comparison of equal ones.
short_circuit_nocompare(m, is_union, array, other, assume_unique, dtype) ==
    IF ~is_union /\ (array.shape[1] = 0 \/ other.shape[1] = 0)
        THEN {Fresh(m, <<>>, dtype, <<0>>)}
    ELSE IF assume_unique /\ is_union /\ array.shape[1] = 0 THEN {Outcome(m, other)}
    ELSE IF assume_unique /\ is_union /\ other.shape[1] = 0 THEN {Outcome(m, array)}
    ELSE {}

\* The optimizations for equal operands and for an intersection with an empty
\* one, without the one for a union with an empty one.
short_circuit_noempty(m, is_union, array, other, assume_unique, dtype) ==
    LET a == m[array.store]
        o == m[other.store]
    IN  IF ~is_union /\ (array.shape[1] = 0 \/ other.shape[1] = 0)
            THEN {Fresh(m, <<>>, dtype, <<0>>)}
        ELSE IF /\ assume_unique
                /\ array.shape = other.shape
                /\ ArraysEqual(a, o, Len(array.shape))
            THEN {Outcome(m, array)}
        ELSE {}

\* The optimizations of _ufunc_set_1d and _ufunc_set_2d for empty and for
\* equal operands: the outcome, or none where the set operation has to run.
short_circuit(m, is_union, array, other, assume_unique, dtype) ==
    LET a == m[array.store]
        o == m[other.store]
    IN  IF ~is_union /\ (array.shape[1] = 0 \/ other.shape[1] = 0)
            THEN {Fresh(m, <<>>, dtype, <<0>>)}
        ELSE IF assume_unique /\ is_union /\ array.shape[1] = 0 THEN {Outcome(m, other)}
        ELSE IF assume_unique /\ is_union /\ other.shape[1] = 0 THEN {Outcome(m, array)}
        ELSE IF /\ assume_unique
                /\ array.shape = other.shape
                /\ ArraysEqual(a, o, Len(array.shape))
            THEN {Outcome(m, array)}
        ELSE {}

\* The outcomes of _ufunc_set_1d: one, or one for each order of a set.
_ufunc_set_1d(m, is_union, array, other, assume_unique) ==
    LET a == m[array.store]
        o == m[other.store]
        dtype == resolve_dtype(array.dtype, other.dtype)
        short == short_circuit(m, is_union, array, other, assume_unique, dtype)
        array_is_str == array.dtype.kind \in DTYPE_STR_KIND
        other_is_str == other.dtype.kind \in DTYPE_STR_KIND
        set_compare == array_is_str # other_is_str
    IN  IF short # {} THEN short
        ELSE IF set_compare \/ dtype.kind = "O"
            THEN set_compare_1d(m, is_union, a, o, dtype)
        ELSE LET values == np_set_1d(is_union, a, o, dtype)
             IN  {Fresh(m, values, dtype, <<Len(values)>>)}

\* The rows of an operand of _ufunc_set_2d as a set of tuples.
RowSet(data, ndim) == IF ndim = 1 THEN Range(data) ELSE {data[r] : r \in 1..Len(data)}

\* The outcomes of _ufunc_set_2d.
_ufunc_set_2d(m, is_union, array, other, assume_unique) ==
    LET a == m[array.store]
        o == m[other.store]
        dtype == resolve_dtype(array.dtype, other.dtype)
        short == short_circuit(m, is_union, array, other, assume_unique, dtype)
    IN  IF short # {} THEN short
        ELSE IF dtype.kind = "O" THEN
            LET array_set == RowSet(a, Len(array.shape))
                other_set == RowSet(o, Len(other.shape))
                result == IF is_union THEN array_set \cup other_set
                          ELSE array_set \cap other_set
            IN  IF \A x, y \in result : TupleComparable(x, y)
                    THEN {Fresh(m, SortedTuples(result), DTYPE_OBJECT, <<Cardinality(result)>>)}
                    ELSE {Fresh(m, values, DTYPE_OBJECT, <<Len(values)>>) :
                                values \in Orderings(result)}
        ELSE IF Len(array.shape) # 2 \/ Len(other.shape) # 2
            THEN {Outcome(m, RaisedHandle("RuntimeError"))}
        ELSE IF array.shape[2] # other.shape[2]
            THEN {Outcome(m, RaisedHandle("AssertionError"))}
        ELSE LET rows == np_set_2d(is_union, a, o, dtype)
             IN  {Fresh(m, rows, dtype, <<Len(rows), array.shape[2]>>)}

union1d(m, array, other, assume_unique) == _ufunc_set_1d(m, TRUE, array, other, assume_unique)
intersect1d(m, array, other, assume_unique) == _ufunc_set_1d(m, FALSE, array, other, assume_unique)
union2d(m, array, other, assume_unique) == _ufunc_set_2d(m, TRUE, array, other, assume_unique)
intersect2d(m, array, other, assume_unique) == _ufunc_set_2d(m, FALSE, array, other, assume_unique)

\* The operands of one dimension: integers, floats, strings and objects; no
\* two values of these are equal without being the same value.
SetOperands1d ==
    {Array(Dtype("i", 8), <<Len(data)>>, data) :
        data \in SeqsUpTo(ElementsOf(Dtype("i", 8), Elements), MaxSetLen)}
    \cup {Array(Dtype("f", 8), <<Len(data)>>, data) :
            data \in SeqsUpTo({Value("float", 1)}, MaxSetLen)}
    \cup {Array(Dtype("U", 1), <<Len(data)>>, data) :
            data \in SeqsUpTo(ElementsOf(Dtype("U", 1), Cells), MaxSetLen)}
    \cup {Array(DTYPE_OBJECT, <<Len(data)>>, data) :
            data \in SeqsUpTo({Value("int", 0), Value("str", 1), None}, MaxSetLen)}

IntRow(x, y) == <<Value("int", x), Value("int", y)>>

\* The operands of two dimensions: tables of integers one or two columns wide,
\* tables of objects, and np.array([]).
SetOperands2d ==
    {Array(Dtype("i", 8), <<Len(rows), 2>>, rows) :
        rows \in SeqsUpTo({IntRow(0, 1), IntRow(1, 0)}, MaxRows)}
    \cup {Array(Dtype("i", 8), <<Len(rows), 1>>, rows) :
            rows \in SeqsUpTo({<<Value("int", 0)>>, <<Value("int", 1)>>}, MaxRows)}
    \cup {Array(DTYPE_OBJECT, <<Len(rows), 2>>, rows) :
            rows \in SeqsUpTo({<<Value("int", 0), None>>, <<None, Value("int", 0)>>},
                              MaxRows)}
    \cup {Array(Dtype("f", 8), <<0>>, <<>>)}

\* The arrays ufunc_set_iter is given.
SetIterOperands ==
    {Array(Dtype("i", 8), <<Len(data)>>, data) :
        data \in {<<>>, <<Value("int", 1)>>,
                  <<Value("int", 2), Value("int", 1)>>,
                  <<Value("int", 1), Value("int", 2)>>}}
    \cup {Array(Dtype("i", 8), <<Len(rows), 2>>, rows) :
            rows \in {<<IntRow(1, 0), IntRow(0, 1)>>, <<IntRow(0, 1), IntRow(1, 0)>>}}

\* An operand said to be unique holds no value, or row, twice.
IsUnique(data) == \A i, j \in 1..Len(data) : data[i] = data[j] => i = j

SetFns1d == {"union1d", "intersect1d"}
SetFns2d == {"union2d", "intersect2d"}

\* Two operands on the heap and a call of one of the four functions on them.
InitSet ==
    /\ pc = "call"
    /\ \E fn \in SetFns1d \cup SetFns2d, assume_unique \in BOOLEAN :
        \E x, y \in IF fn \in SetFns1d THEN SetOperands1d ELSE SetOperands2d :
            /\ assume_unique => IsUnique(x.data) /\ IsUnique(y.data)
            /\ mem = <<x.data, y.data>>
            /\ args = [fn |-> fn,
                       arrays |-> <<Handle(1, x.dtype, x.shape), Handle(2, y.dtype, y.shape)>>,
                       union |-> fn \in {"union1d", "union2d"},
                       assume_unique |-> assume_unique,
                       before |-> <<x.data, y.data>>]
    /\ locals = NoLocals
    /\ ret = NoRet

\* ufunc_set_iter on up to MaxIter arrays.
InitSetIter ==
    /\ pc = "call"
    /\ \E union \in BOOLEAN, assume_unique \in BOOLEAN :
        \E xs \in SeqsUpTo(SetIterOperands, MaxIter) :
            /\ mem = [i \in 1..Len(xs) |-> xs[i].data]
            /\ args = [fn |-> "ufunc_set_iter",
                       arrays |-> [i \in 1..Len(xs) |-> Handle(i, xs[i].dtype, xs[i].shape)],
                       union |-> union,
                       assume_unique |-> assume_unique,
                       before |-> [i \in 1..Len(xs) |-> xs[i].data]]
    /\ locals = NoLocals
    /\ ret = NoRet

Union1d ==
    /\ pc = "call"
    /\ args.fn = "union1d"
    /\ \E out \in union1d(mem, args.arrays[1], args.arrays[2], args.assume_unique) :
            mem' = out.mem /\ ret' = out.ret
    /\ pc' = "done"
    /\ UNCHANGED <<args, locals>>

Intersect1d ==
    /\ pc = "call"
    /\ args.fn = "intersect1d"
    /\ \E out \in intersect1d(mem, args.arrays[1], args.arrays[2], args.assume_unique) :
            mem' = out.mem /\ ret' = out.ret
    /\ pc' = "done"
    /\ UNCHANGED <<args, locals>>

Union2d ==
    /\ pc = "call"
    /\ args.fn = "union2d"
    /\ \E out \in union2d(mem, args.arrays[1], args.arrays[2], args.assume_unique) :
            mem' = out.mem /\ ret' = out.ret
    /\ pc' = "done"
    /\ UNCHANGED <<args, locals>>

Intersect2d ==
    /\ pc = "call"
    /\ args.fn = "intersect2d"
    /\ \E out \in intersect2d(mem, args.arrays[1], args.arrays[2], args.assume_unique) :
            mem' = out.mem /\ ret' = out.ret
    /\ pc' = "done"
    /\ UNCHANGED <<args, locals>>

\* result = next(arrays), and the choice of the function by its ndim.
UfuncSetIterFirst ==
    /\ pc = "call"
    /\ args.fn = "ufunc_set_iter"
    /\ IF Len(args.arrays) = 0
        THEN /\ ret' = RaisedHandle("StopIteration")
             /\ pc' = "done"
             /\ UNCHANGED locals
        ELSE /\ locals' = [result |-> args.arrays[1], ndim |-> Len(args.arrays[1].shape),
                           next |-> 2]
             /\ pc' = "loop"
             /\ UNCHANGED ret
    /\ UNCHANGED <<args, mem>>

\* One turn of the loop over the remaining arrays.
UfuncSetIterStep ==
    /\ pc = "loop"
    /\ locals.next <= Len(args.arrays)
    /\ LET array == args.arrays[locals.next]
       IN  IF Len(array.shape) # locals.ndim
            THEN /\ ret' = RaisedHandle("RuntimeError")
                 /\ pc' = "done"
                 /\ UNCHANGED <<locals, mem>>
            ELSE \E out \in
                    IF locals.ndim = 1
                        THEN _ufunc_set_1d(mem, args.union, locals.result, array,
                                           args.assume_unique)
                        ELSE _ufunc_set_2d(mem, args.union, locals.result, array,
                                           args.assume_unique) :
                    /\ mem' = out.mem
                    /\ IF out.ret.store = 0 \/ (~args.union /\ out.ret.shape[1] = 0)
                        THEN /\ ret' = out.ret
                             /\ pc' = "done"
                             /\ UNCHANGED locals
                        ELSE /\ locals' = [locals EXCEPT !.result = out.ret,
                                                         !.next = locals.next + 1]
                             /\ UNCHANGED <<ret, pc>>
    /\ UNCHANGED args

UfuncSetIterReturn ==
    /\ pc = "loop"
    /\ locals.next > Len(args.arrays)
    /\ ret' = locals.result
    /\ pc' = "done"
    /\ UNCHANGED <<args, locals, mem>>

NextSet ==
    \/ Union1d \/ Intersect1d \/ Union2d \/ Intersect2d
    \/ UfuncSetIterFirst \/ UfuncSetIterStep \/ UfuncSetIterReturn

SpecSet == (InitSet \/ InitSetIter) /\ [][NextSet]_vars

SetFns == SetFns1d \cup SetFns2d \cup {"ufunc_set_iter"}

SetDone == pc = "done" /\ args.fn \in SetFns

\* The operands of the call are of one shape and equal element by element.
OperandsIdentical ==
    /\ Len(args.arrays) >= 1
    /\ \A i \in 1..Len(args.arrays) :
        /\ args.arrays[i].shape = args.arrays[1].shape
        /\ ArraysEqual(args.before[1], args.before[i], Len(args.arrays[1].shape))

SetLen(i) == args.arrays[i].shape[1]

\* C15: with assume_unique=True the union of an empty and a non-empty array, in
\* either order, returns the non-empty operand itself (its order and dtype
\* with it); the intersection of any array with an empty one has length 0,
\* with or without assume_unique.
C15_EmptyOperand ==
    /\ pc = "done" /\ args.fn \in {"union1d", "union2d"} /\ args.assume_unique =>
        /\ (SetLen(1) = 0 /\ SetLen(2) > 0)
                => (ret = args.arrays[2] /\ mem[ret.store] = args.before[2])
        /\ (SetLen(2) = 0 /\ SetLen(1) > 0)
                => (ret = args.arrays[1] /\ mem[ret.store] = args.before[1])
    /\ (/\ pc = "done" /\ args.fn \in {"intersect1d", "intersect2d"}
        /\ SetLen(1) = 0 \/ SetLen(2) = 0)
            => ret.store # 0 /\ ret.shape[1] = 0 /\ Len(mem[ret.store]) = 0

\* test_set_ufunc2d_e: np.array([]), of floats, united with a table of
\* integers gives that table, still of integers.
C15_Witness ==
    /\ pc = "done" /\ args.fn = "union2d" /\ args.assume_unique
    /\ args.arrays[1].dtype = Dtype("f", 8) /\ SetLen(1) = 0
    /\ args.arrays[2].shape = <<2, 2>>
    /\ ret = args.arrays[2]
    /\ ret.dtype = Dtype("i", 8)

\* The result of a set operation on two operands of one dimension holds
\* exactly the values wanted, each once.
ExactlyOnce(result, a, o, is_union) ==
    /\ IsUnique(result)
    /\ \A i, j \in 1..Len(result) : PyEq(result[i], result[j]) => i = j
    /\ \A x \in Range(result) :
        IF is_union
            THEN \E y \in Range(a) \cup Range(o) : PyEq(x, y)
            ELSE (\E y \in Range(a) : PyEq(x, y)) /\ (\E y \in Range(o) : PyEq(x, y))
    /\ \A y \in Range(a) \cup Range(o) :
        (is_union \/ ((\E z \in Range(a) : PyEq(y, z)) /\ (\E z \in Range(o) : PyEq(y, z))))
            => \E x \in Range(result) : PyEq(x, y)

Ascending(result) == \A i, j \in 1..Len(result) : i < j => result[i].v < result[j].v

SameSortableKind ==
    /\ args.arrays[1].dtype.kind = args.arrays[2].dtype.kind
    /\ args.arrays[1].dtype.kind \in {"i", "f", "U"}

Iterable(kind, values, dtype) == [kind |-> kind, values |-> values, dtype |-> dtype]

\* No dtype given: dtype=None.
DtypeNone == Raise("None")

EMPTY_ARRAY == Array(Dtype("f", 8), <<0>>, <<>>)

\* The dtype np.array finds for values when none is given.
np_array_dtype(values) ==
    LET types == {values[i].t : i \in 1..Len(values)}
    IN  IF types = {} THEN Dtype("f", 8)
        ELSE IF types = {"bool"} THEN DTYPE_BOOL
        ELSE IF types \subseteq {"bool", "int"} THEN Dtype("i", 8)
        ELSE IF types \subseteq {"bool", "int", "float"} THEN Dtype("f", 8)
        ELSE IF types \subseteq {"bool", "int", "float", "complex"} THEN Dtype("c", 16)
        ELSE IF types = {"str"}
            THEN Dtype("U", IF \E i \in 1..Len(values) : values[i].v >= 10 THEN 2 ELSE 1)
        ELSE DTYPE_OBJECT

\* What the loop of resolve_type_iter knows before its first value.
NoTypes ==
    [resolved |-> DtypeNone, has_tuple |-> FALSE, has_str |-> FALSE, has_non_str |-> FALSE,
     has_inexact |-> FALSE, has_big_int |-> FALSE]

\* One value seen by the loop of resolve_type_iter while resolved is not yet
\* object: object on a tuple or list, on strings among other values, or on a
\* big integer among floats.
type_of_value(f, v) ==
    LET is_tuple == v.t \in {"tuple", "list"}
        is_str == v.t = "str"
        has_tuple == f.has_tuple \/ is_tuple
        has_str == f.has_str \/ (~is_tuple /\ is_str)
        has_non_str == f.has_non_str \/ (~is_tuple /\ ~is_str)
        has_inexact == f.has_inexact \/ v.t \in {"float", "complex"}
        has_big_int == f.has_big_int \/ (v.t = "int" /\ v.s = "big")
    IN  [resolved |-> IF has_tuple \/ (has_str /\ has_non_str) \/ (has_big_int /\ has_inexact)
                        THEN DTYPE_OBJECT ELSE DtypeNone,
         has_tuple |-> has_tuple, has_str |-> has_str, has_non_str |-> has_non_str,
         has_inexact |-> has_inexact, has_big_int |-> has_big_int]

\* The loop over the first k values: nothing is looked at once resolved is
\* object.
RECURSIVE type_scan(_, _)
type_scan(values, k) ==
    IF k = 0 THEN NoTypes
    ELSE LET f == type_scan(values, k - 1)
         IN  IF f.resolved = DTYPE_OBJECT THEN f ELSE type_of_value(f, values[k])

\* resolve_type_iter: (resolved, has_tuple) for the values of an iterable.
resolve_type_iter(values) ==
    LET f == type_scan(values, Len(values))
    IN  [resolved |-> f.resolved, has_tuple |-> f.has_tuple]

\* iterable_to_array_1d: the array, and whether its values are known to be
\* unique.
iterable_to_array_1d(values, dtype) ==
    LET n == Len(values.values)
        is_unique == n = 1 \/ values.kind = "frozenset"
    IN  IF values.kind = "ndarray" THEN
            IF dtype # DtypeNone /\ dtype # values.dtype
                THEN [array |-> RaisedArray("RuntimeError"), is_unique |-> FALSE]
                ELSE [array |-> Array(values.dtype, <<n>>, values.values), is_unique |-> n <= 1]
        ELSE IF dtype = DtypeNone THEN
            LET resolved == resolve_type_iter(values.values).resolved
            IN  IF n = 0 THEN [array |-> EMPTY_ARRAY, is_unique |-> TRUE]
                ELSE IF resolved = DTYPE_OBJECT
                    THEN [array |-> Array(DTYPE_OBJECT, <<n>>, values.values),
                          is_unique |-> is_unique]
                ELSE [array |-> Array(np_array_dtype(values.values), <<n>>,
                                      CastSeq(values.values, np_array_dtype(values.values))),
                      is_unique |-> is_unique]
        ELSE IF n = 0 THEN [array |-> Array(dtype, <<0>>, <<>>), is_unique |-> TRUE]
        ELSE [array |-> Array(dtype, <<n>>, CastSeq(values.values, dtype)),
              is_unique |-> is_unique]

\* hash(v) raises TypeError.
Unhashable(v) == v.t = "UnHashable"

\* np.in1d compares element by element while the second array is shorter than
\* 10 * len(ar1) ** 0.145, or an array holds objects; this is the greatest such
\* length, for a first array of up to ten elements.
In1dLoopLimit(n) ==
    IF n = 0 THEN 0 - 1
    ELSE IF n = 1 THEN 9
    ELSE IF n <= 3 THEN 11
    ELSE IF n <= 6 THEN 12
    ELSE 13

\* np.unique: the values once each, ascending.
np_unique(data) == SortedValues(Range(data))

\* The sort of np.in1d: both arrays joined in their common dtype and sorted
\* (stable), an element flagged when the next one equals it. Without
\* assume_unique both arrays are made unique first. Which order the sort uses
\* does not change the flags, as long as equal values are neighbours.
in1d_sort(ar1, ar2, dtype, assume_unique) ==
    LET c1 == CastSeq(ar1, dtype)
        c2 == CastSeq(ar2, dtype)
        u1 == IF assume_unique THEN c1 ELSE np_unique(c1)
        u2 == IF assume_unique THEN c2 ELSE np_unique(c2)
        ar == u1 \o u2
        order == argsort(SortKeys(ar))
        sar == [k \in 1..Len(ar) |-> ar[order[k]]]
        flag == [k \in 1..Len(ar) |-> k < Len(ar) /\ sar[k] = sar[k + 1]]
        rank == argsort([k \in 1..Len(ar) |-> <<order[k]>>])
        result == [i \in 1..Len(ar) |-> flag[rank[i]]]
    IN  IF assume_unique THEN [i \in 1..Len(ar1) |-> result[i]]
        ELSE [i \in 1..Len(ar1) |->
                result[CHOOSE k \in 1..Len(u1) : u1[k] = c1[i]]]

\* np.in1d (and np.isin, on the elements of a table in row order).
np_in1d(ar1, ar2, assume_unique) ==
    LET contains_object == ar1.dtype.kind = "O" \/ ar2.dtype.kind = "O"
    IN  IF Len(ar2.data) <= In1dLoopLimit(Len(ar1.data)) \/ contains_object
            THEN [i \in 1..Len(ar1.data) |->
                    \E k \in 1..Len(ar2.data) : PyEq(ar1.data[i], ar2.data[k])]
            ELSE in1d_sort(ar1.data, ar2.data, result_type(ar1.dtype, ar2.dtype),
                           assume_unique)

BoolResult(array, flags) ==
    [dtype |-> DTYPE_BOOL, shape |-> array.shape, data |-> flags, writeable |-> FALSE]

isin(array, other, array_is_unique) ==
    LET n == Len(array.data)
    IN  IF other.kind # "generator" /\ Len(other.values) = 0
            THEN BoolResult(array, [i \in 1..n |-> FALSE])
        ELSE LET converted == iterable_to_array_1d(other, DtypeNone)
                 object == array.dtype = DTYPE_OBJECT \/ converted.array.dtype = DTYPE_OBJECT
                 \* frozenset(other), or element in other, raises TypeError; none
                 \* of the arrays here makes np.in1d raise it
                 unhashable == \/ \E k \in 1..Len(other.values) : Unhashable(other.values[k])
                               \/ \E i \in 1..n : Unhashable(array.data[i])
                 assume_unique == array_is_unique /\ converted.is_unique
             IN  IF object /\ ~unhashable
                    THEN BoolResult(array,
                            [i \in 1..n |-> \E y \in Range(other.values) :
                                                PyEq(array.data[i], y)])
                    ELSE BoolResult(array, np_in1d(array, converted.array, assume_unique))

\* The arrays searched: integers, and objects among them one that cannot be
\* hashed, in one or two dimensions.
IsinArrays ==
    UNION {{Array(Dtype("i", 8), shape, data) : shape \in ShapesOf(Len(data))} :
                data \in SeqsUpTo(ElementsOf(Dtype("i", 8), {1, 2}), MaxLen)}
    \cup UNION {{Array(DTYPE_OBJECT, shape, data) : shape \in ShapesOf(Len(data))} :
                data \in SeqsUpTo({Value("int", 1), None, Value("UnHashable", 1)}, MaxLen)}

\* What is looked for: up to two values as a tuple, a generator, an ndarray or
\* (where they can be hashed) a frozenset; the twelve numbers of
\* test_series_isin_d; and the strings '1' to '12'.
IsinOthers ==
    {Iterable(kind, values, DtypeNone) :
        kind \in {"tuple", "generator"},
        values \in SeqsUpTo({Value("int", 1), Value("str", 1), Value("UnHashable", 1)}, 2)}
    \cup {Iterable("frozenset", values, DtypeNone) :
            values \in {vs \in SeqsUpTo({Value("int", 1), Value("str", 1)}, 2) : IsUnique(vs)}}
    \cup {Iterable("ndarray", values,
                   IF resolve_type_iter(values).resolved = DTYPE_OBJECT
                        THEN DTYPE_OBJECT ELSE np_array_dtype(values)) :
            values \in SeqsUpTo({Value("int", 1), Value("str", 1), Value("UnHashable", 1)}, 2)}
    \cup {Iterable("frozenset", [k \in 1..12 |-> Value("int", k + 1)], DtypeNone),
          Iterable("tuple", [k \in 1..12 |-> Value("str", k)], DtypeNone)}

InitIsin ==
    /\ pc = "call"
    /\ \E array \in IsinArrays, other \in IsinOthers, array_is_unique \in BOOLEAN :
        /\ array_is_unique => IsUnique(array.data)
        /\ args = [fn |-> "isin", array |-> array, other |-> other,
                   array_is_unique |-> array_is_unique]
    /\ locals = NoLocals
    /\ ret = NoRet
    /\ mem = NoMem

Isin ==
    /\ pc = "call"
    /\ args.fn = "isin"
    /\ ret' = isin(args.array, args.other, args.array_is_unique)
    /\ pc' = "done"
    /\ UNCHANGED <<args, locals, mem>>

SpecIsin == InitIsin /\ [][Isin]_vars

\* C17: isin(array, other) returns a read-only boolean array of array's shape,
\* True exactly where the element equals some element of other (so all False
\* for an empty other), also when array holds a value more than once.
C17_Isin ==
    pc = "done" /\ args.fn = "isin" =>
        /\ ret.dtype = DTYPE_BOOL
        /\ ret.shape = args.array.shape
        /\ ~ret.writeable
        /\ \A i \in 1..Len(args.array.data) :
            ret.data[i] <=> \E k \in 1..Len(args.other.values) :
                                PyEq(args.array.data[i], args.other.values[k])

(***************************************************************************)
(* slice_to_ascending_slice                                                *)
(***************************************************************************)
MaxSize == 4
MaxStep == 3

\* A start, stop or step of a slice: None, or an integer.
NoneInt == [none |-> TRUE, v |-> 0]
Int_(v) == [none |-> FALSE, v |-> v]

slice(start, stop, step) == [start |-> start, stop |-> stop, step |-> step, raised |-> ""]

RaisedSlice(exc) == [start |-> NoneInt, stop |-> NoneInt, step |-> NoneInt, raised |-> exc]

\* key.indices(size): start, stop and step as integers, as range takes them.
slice_indices(key, size) ==
    LET step == IF key.step.none THEN 1 ELSE key.step.v
        lower == IF step < 0 THEN 0 - 1 ELSE 0
        upper == IF step < 0 THEN size - 1 ELSE size
        adjust(x) == IF x < 0 THEN Max(x + size, lower) ELSE Min(x, upper)
        start == IF key.start.none THEN (IF step < 0 THEN upper ELSE lower)
                 ELSE adjust(key.start.v)
        stop == IF key.stop.none THEN (IF step < 0 THEN lower ELSE upper)
                ELSE adjust(key.stop.v)
    IN  <<start, stop, step>>

\* The integers of range(start, stop, step), for a step other than 0.
range(start, stop, step) ==
    IF step > 0
        THEN {i \in start..(stop - 1) : (i - start) % step = 0}
        ELSE {i \in (stop + 1)..start : (start - i) % (0 - step) = 0}

\* The positions of a container of a size that a slice selects.
Positions(key, size) ==
    LET ind == slice_indices(key, size)
    IN  range(ind[1], ind[2], ind[3])

slice_to_ascending_slice(key, size) ==
    IF key.step.none \/ key.step.v > 0 THEN key
    ELSE LET stop == IF key.start.none THEN NoneInt ELSE Int_(key.start.v + 1)
         IN  IF key.step.v = 0 - 1 THEN
                slice(IF key.stop.none THEN NoneInt ELSE Int_(key.stop.v + 1), stop, Int_(1))
             ELSE
                \* next(reversed(range(...))): the last integer of the range,
                \* the least for a negative step; StopIteration if it has none
                LET positions == Positions(key, size)
                IN  IF positions = {} THEN RaisedSlice("StopIteration")
                    ELSE slice(Int_(CHOOSE i \in positions : \A j \in positions : i <= j),
                               stop, Int_(0 - key.step.v))

SliceBounds == {NoneInt} \cup {Int_(v) : v \in (0 - (MaxSize + 2))..(MaxSize + 2)}
SliceSteps == {NoneInt} \cup {Int_(v) : v \in ((0 - MaxStep)..MaxStep) \ {0}}

InitAscending ==
    /\ pc = "call"
    /\ \E start \in SliceBounds, stop \in SliceBounds, step \in SliceSteps, size \in 0..MaxSize :
            args = [fn |-> "slice_to_ascending_slice", key |-> slice(start, stop, step),
                    size |-> size]
    /\ locals = NoLocals
    /\ ret = NoRet
    /\ mem = NoMem

SliceToAscendingSlice ==
    /\ pc = "call"
    /\ args.fn = "slice_to_ascending_slice"
    /\ ret' = slice_to_ascending_slice(args.key, args.size)
    /\ pc' = "done"
    /\ UNCHANGED <<args, locals, mem>>

SpecAscending == InitAscending /\ [][SliceToAscendingSlice]_vars

\* C18: for every slice and every size slice_to_ascending_slice returns a slice
\* of positive step that selects the positions the key selects (in ascending
\* order, as a positive step lists them); a key of step None or of positive
\* step is returned unchanged.
C18_Ascending ==
    pc = "done" /\ args.fn = "slice_to_ascending_slice" =>
        /\ ret.raised = ""
        /\ IF args.key.step.none \/ args.key.step.v > 0
            THEN ret = args.key
            ELSE ~ret.step.none /\ ret.step.v > 0
        /\ Positions(ret, args.size) = Positions(args.key, args.size)

(***************************************************************************)
(* Binary operators of Series                                              *)
(*                                                                         *)
(* A Series is an Index (an array of unique labels, held on the heap) and  *)
(* a 1D array of values of the same length.  The operator follows the      *)
(* pairwise protocol of the alignment engine: equal indexes operate        *)
(* directly; otherwise both operands are reindexed onto the union of the   *)
(* indexes, a position a Series has no label for is filled with NaN, and   *)
(* the operator is applied elementwise.                                    *)
(***************************************************************************)
MaxLabel == 3

Series(index, values) == [index |-> index, values |-> values]

\* Index.union on two Indexes: union1d on the labels, which are unique.
Index_union(m, index, other) == union1d(m, index, other, TRUE)

\* Series.reindex: the values in the order of the new labels, the fill value
\* (NaN) where the Series has no such label, in the dtype that holds both; a
\* Series that has every label keeps its dtype.
reindex(labels, values, index) ==
    LET fill_value == NAN("float")
        is_subset == Range(index) \subseteq Range(labels)
        dtype == IF is_subset THEN values.dtype
                 ELSE resolve_dtype(values.dtype, dtype_of(fill_value))
        src(l) == CHOOSE i \in 1..Len(labels) : labels[i] = l
    IN  Array(dtype, <<Len(index)>>,
              [k \in 1..Len(index) |->
                    IF index[k] \in Range(labels)
                        THEN astype(values.data[src(index[k])], dtype)
                        ELSE astype(fill_value, dtype)])

BinaryOperators == {"add", "sub", "mul"}

\* Python's +, - and * on two numbers: NaN with a NaN operand, a float with a
\* float operand, an int otherwise.
operator_(op, x, y) ==
    IF x.s = "nan" \/ y.s = "nan" THEN NAN("float")
    ELSE Value(IF "float" \in {x.t, y.t} THEN "float" ELSE "int",
               CASE op = "add" -> x.v + y.v
                 [] op = "sub" -> x.v - y.v
                 [] op = "mul" -> x.v * y.v)

\* The operator on two integer or float arrays of one length: a float array
\* when either is one.
ufunc_binary(op, left, right) ==
    LET dtype == IF "f" \in {left.dtype.kind, right.dtype.kind}
                    THEN Dtype("f", 8) ELSE Dtype("i", 8)
    IN  Array(dtype, left.shape,
              [i \in 1..Len(left.data) |->
                    astype(operator_(op, left.data[i], right.data[i]), dtype)])

\* Series._ufunc_binary_operator with another Series: the outcomes, one for each
\* outcome of the union of the indexes.
_ufunc_binary_operator(m, op, self, other) ==
    LET labels == m[self.index.store]
        other_labels == m[other.index.store]
    IN  IF Len(labels) = Len(other_labels) /\ ArraysEqual(labels, other_labels, 1)
            THEN {Outcome(m, Series(self.index, ufunc_binary(op, self.values, other.values)))}
        ELSE {Outcome(u.mem,
                      Series(u.ret,
                             ufunc_binary(op,
                                          reindex(labels, self.values, u.mem[u.ret.store]),
                                          reindex(other_labels, other.values,
                                                  u.mem[u.ret.store])))) :
                    u \in Index_union(m, self.index, other.index)}

SeriesLabels == {Value("str", k) : k \in 1..MaxLabel}
SeriesIndexes == {index \in SeqsUpTo(SeriesLabels, MaxLabel) : IsUnique(index)}
SeriesDtypes == {Dtype("i", 8), Dtype("f", 8)}

\* The values of a Series of the tests: range(n) over the labels in ascending
\* order (or twice that), as integers or as floats with a NaN at the first
\* label.
SeriesValues(index, dtype, scale) ==
    Array(dtype, <<Len(index)>>,
          [i \in 1..Len(index) |->
                LET x == index[i].v - 1
                IN  IF dtype.kind = "i" THEN Value("int", scale * x)
                    ELSE IF x = 0 THEN NAN("float")
                    ELSE Value("float", scale * x)])

\* Two Series, their labels on the heap, and an operator between them.
InitSeries ==
    /\ pc = "call"
    /\ \E op \in BinaryOperators, index \in SeriesIndexes, other \in SeriesIndexes,
          dtype \in SeriesDtypes, other_dtype \in SeriesDtypes, scale \in 1..2 :
            /\ mem = <<index, other>>
            /\ args = [fn |-> "_ufunc_binary_operator",
                       op |-> op,
                       self |-> Series(Handle(1, Dtype("U", 1), <<Len(index)>>),
                                       SeriesValues(index, dtype, 1)),
                       other |-> Series(Handle(2, Dtype("U", 1), <<Len(other)>>),
                                        SeriesValues(other, other_dtype, scale))]
    /\ locals = NoLocals
    /\ ret = NoRet

SeriesBinaryOperator ==
    /\ pc = "call"
    /\ args.fn = "_ufunc_binary_operator"
    /\ \E out \in _ufunc_binary_operator(mem, args.op, args.self, args.other) :
            mem' = out.mem /\ ret' = out.ret
    /\ pc' = "done"
    /\ UNCHANGED <<args, locals>>

SpecSeries == InitSeries /\ [][SeriesBinaryOperator]_vars

\* The value a Series holds at a label.
ValueAt(series, l) ==
    series.values.data[CHOOSE i \in 1..Len(mem[series.index.store]) :
                            mem[series.index.store][i] = l]

SeriesDone == pc = "done" /\ args.fn = "_ufunc_binary_operator"

IndexesDiffer == mem[args.self.index.store] # mem[args.other.index.store]

\* C19: an arithmetic operator between two Series of different indexes yields a
\* Series over the union of the two indexes, each label once; at a label of
\* both operands it holds the operator applied to the two values at that label,
\* at a label of only one operand it holds a null.
C19_Aligned ==
    SeriesDone /\ IndexesDiffer =>
        LET labels == mem[args.self.index.store]
            other_labels == mem[args.other.index.store]
            aligned == mem[ret.index.store]
        IN  /\ Range(aligned) = Range(labels) \cup Range(other_labels)
            /\ IsUnique(aligned)
            /\ ret.values.shape = <<Len(aligned)>>
            /\ Len(ret.values.data) = Len(aligned)
            /\ \A i \in 1..Len(aligned) :
                    IF aligned[i] \in Range(labels) \cap Range(other_labels)
                        THEN SameValue(ret.values.data[i],
                                       operator_(args.op,
                                                 ValueAt(args.self, aligned[i]),
                                                 ValueAt(args.other, aligned[i])))
                        ELSE isna_element(ret.values.data[i])

\* range(3) over the first three labels plus range(2) over the first two: the
\* sums at the two common labels and a null at the third.
C19_Witness ==
    /\ SeriesDone
    /\ args.op = "add"
    /\ mem[args.self.index.store] = <<Value("str", 1), Value("str", 2), Value("str", 3)>>
    /\ mem[args.other.index.store] = <<Value("str", 1), Value("str", 2)>>
    /\ args.self.values.data = <<Value("int", 0), Value("int", 1), Value("int", 2)>>
    /\ args.other.values.data = <<Value("int", 0), Value("int", 1)>>
    /\ ret.values.data = <<Value("float", 0), Value("float", 2), NAN("float")>>

(***************************************************************************)
(* matmul                                                                  *)
(*                                                                         *)
(* An operand is an ndarray, a Series or a Frame of one or two dimensions: *)
(* its values, and for a container the labels of its index and (for a      *)
(* Frame) of its columns.  locals holds the operands matmul has prepared   *)
(* for np.matmul once the alignment has passed.                            *)
(***************************************************************************)
MaxDim == 2

Operand(type, values, index, columns) ==
    [type |-> type, ndim |-> Len(values.shape), shape |-> values.shape, values |-> values,
     index |-> index, columns |-> columns]

\* An index argument of a constructor: None, or labels.
NoIndex == [none |-> TRUE, labels |-> <<>>]
IndexOf(labels) == [none |-> FALSE, labels |-> labels]

RECURSIVE Dot(_, _)
Dot(x, y) == IF x = <<>> THEN 0 ELSE x[1].v * y[1].v + Dot(Tail(x), Tail(y))

Column(rows, c) == [r \in 1..Len(rows) |-> rows[r][c]]

\* np.matmul on arrays of one or two dimensions: ValueError unless the last
\* axis of the left operand is as long as the first axis of the right one.
np_matmul(left, right) ==
    LET ln == Len(left.shape)
        rn == Len(right.shape)
        dtype == Dtype("i", 8)
    IN  IF left.shape[ln] # right.shape[1] THEN RaisedArray("ValueError")
        ELSE CASE ln = 1 /\ rn = 1 ->
                    Array(dtype, <<>>, <<Value("int", Dot(left.data, right.data))>>)
               [] ln = 1 /\ rn = 2 ->
                    Array(dtype, <<right.shape[2]>>,
                          [c \in 1..right.shape[2] |->
                                Value("int", Dot(left.data, Column(right.data, c)))])
               [] ln = 2 /\ rn = 1 ->
                    Array(dtype, <<left.shape[1]>>,
                          [r \in 1..left.shape[1] |->
                                Value("int", Dot(left.data[r], right.data))])
               [] OTHER ->
                    Array(dtype, <<left.shape[1], right.shape[2]>>,
                          [r \in 1..left.shape[1] |->
                                [c \in 1..right.shape[2] |->
                                    Value("int", Dot(left.data[r], Column(right.data, c)))]])

\* Frame.reindex(index=...) and Frame.reindex(columns=...): the values of the
\* rows (axis 0) or of the columns (axis 1) in the order of the new labels.
Frame_reindex(labels, values, index, axis) ==
    LET rows == values.shape[1]
        cols == values.shape[2]
        n == Len(index)
        row(r) == reindex(labels, Array(values.dtype, <<cols>>, values.data[r]), index)
        col(c) == reindex(labels, Array(values.dtype, <<rows>>, Column(values.data, c)), index)
        dtype == IF Range(index) \subseteq Range(labels) THEN values.dtype
                 ELSE resolve_dtype(values.dtype, Dtype("f", 8))
    IN  IF axis = 1
            THEN Array(dtype, <<rows, n>>, [r \in 1..rows |-> row(r).data])
            ELSE Array(dtype, <<n, cols>>,
                       [k \in 1..n |-> [c \in 1..cols |-> col(c).data[k]]])

\* What matmul has decided before it calls np.matmul.
Prepared(left, right, ndim, index, columns, constructor, own_index) ==
    [raised |-> "", left |-> left, right |-> right, ndim |-> ndim, index |-> index,
     columns |-> columns, constructor |-> constructor, own_index |-> own_index]

NotAlignable ==
    [raised |-> "RuntimeError", left |-> RaisedArray("RuntimeError"),
     right |-> RaisedArray("RuntimeError"), ndim |-> 0, index |-> NoIndex,
     columns |-> NoIndex, constructor |-> "", own_index |-> TRUE]

\* The branches of matmul on the dimensions and the types of its operands,
\* once the lengths of the aligned labels have been compared: what each
\* prepares for np.matmul.
matmul_branches(lhs, rhs, aligned) ==
    IF lhs.ndim = 1 THEN
        IF lhs.type = "Series" THEN
            IF rhs.type = "ndarray" THEN
                IF lhs.shape[1] # rhs.shape[1] THEN NotAlignable
                ELSE IF rhs.ndim - 1 = 1
                    THEN Prepared(lhs.values, rhs.values, 1, NoIndex, NoIndex, "Series", FALSE)
                    ELSE Prepared(lhs.values, rhs.values, 0, NoIndex, NoIndex, "", TRUE)
            ELSE IF rhs.type = "Series"
                THEN Prepared(reindex(lhs.index, lhs.values, aligned),
                              reindex(rhs.index, rhs.values, aligned),
                              0, NoIndex, NoIndex, "", TRUE)
            ELSE Prepared(reindex(lhs.index, lhs.values, aligned),
                          Frame_reindex(rhs.index, rhs.values, aligned, 0),
                          1, IndexOf(rhs.columns), NoIndex, "Series", TRUE)
        ELSE IF rhs.type = "Series"
            THEN Prepared(lhs.values, rhs.values, 0, NoIndex, NoIndex, "", TRUE)
        ELSE Prepared(lhs.values, rhs.values, 1, IndexOf(rhs.columns), NoIndex, "Series", TRUE)
    ELSE
        IF lhs.type = "Frame" THEN
            IF rhs.type = "ndarray" THEN
                IF lhs.shape[2] # rhs.shape[1] THEN NotAlignable
                ELSE IF rhs.ndim = 1
                    THEN Prepared(lhs.values, rhs.values, 1, IndexOf(lhs.index), NoIndex,
                                  "Series", TRUE)
                    ELSE Prepared(lhs.values, rhs.values, 2, IndexOf(lhs.index), NoIndex,
                                  "Frame", TRUE)
            ELSE IF rhs.type = "Series"
                THEN Prepared(Frame_reindex(lhs.columns, lhs.values, aligned, 1),
                              reindex(rhs.index, rhs.values, aligned),
                              1, IndexOf(lhs.index), NoIndex, "Series", TRUE)
            ELSE Prepared(Frame_reindex(lhs.columns, lhs.values, aligned, 1),
                          Frame_reindex(rhs.index, rhs.values, aligned, 0),
                          2, IndexOf(lhs.index), IndexOf(rhs.columns), "Frame", TRUE)
        ELSE IF rhs.type = "Series"
            THEN Prepared(lhs.values, rhs.values, 1, NoIndex, NoIndex, "Series", FALSE)
        ELSE IF lhs.shape[2] # rhs.shape[1] THEN NotAlignable
        ELSE Prepared(lhs.values, rhs.values, 2, NoIndex, IndexOf(rhs.columns), "Frame", FALSE)

\* matmul up to its call of np.matmul, for operands that are not both
\* ndarrays: the outcomes, one for each outcome of the union of the labels.
matmul_prepare(lhs, rhs) ==
    LET labels == IF lhs.ndim = 1 THEN lhs.index ELSE lhs.columns
        labelled == lhs.type # "ndarray" /\ rhs.type # "ndarray"
        unions == IF labelled
                    THEN {u.mem[u.ret.store] :
                            u \in Index_union(<<labels, rhs.index>>,
                                              Handle(1, Dtype("U", 1), <<Len(labels)>>),
                                              Handle(2, Dtype("U", 1), <<Len(rhs.index)>>))}
                    ELSE {<<>>}
    IN  {IF labelled /\ (Len(aligned) # Len(labels) \/ Len(aligned) # Len(rhs.index))
            THEN NotAlignable
            ELSE matmul_branches(lhs, rhs, aligned) : aligned \in unions}

\* The labels of an axis a constructor is given no index for.
AutoLabels(n) == [i \in 1..n |-> Value("int", i - 1)]

\* What matmul returns: the product itself, or the container built on it.
Result(type, data, index, columns, own_index) ==
    [type |-> type, data |-> data, index |-> index, columns |-> columns,
     own_index |-> own_index]

\* The end of matmul: np.matmul on the prepared operands and the construction
\* of the result.
matmul_return(p) ==
    LET data == np_matmul(p.left, p.right)
        labels(ix, n) == IF ix.none THEN AutoLabels(n) ELSE ix.labels
    IN  IF data.dtype.kind \in Exceptions
            THEN Result(data.dtype.kind, data, <<>>, <<>>, TRUE)
        ELSE IF p.ndim = 0 THEN Result("scalar", data, <<>>, <<>>, TRUE)
        ELSE IF p.ndim = 1
            THEN Result(p.constructor, data, labels(p.index, data.shape[1]), <<>>, p.own_index)
        ELSE Result(p.constructor, data, labels(p.index, data.shape[1]),
                    labels(p.columns, data.shape[2]), p.own_index)

MatmulLabels == {Value("str", k) : k \in 1..MaxLabel}
MatmulIndexes == {index \in SeqsUpTo(MatmulLabels, MaxDim) : IsUnique(index)}

Values1d(n) == Array(Dtype("i", 8), <<n>>, [i \in 1..n |-> Value("int", i)])
Values2d(rows, cols) ==
    Array(Dtype("i", 8), <<rows, cols>>,
          [r \in 1..rows |-> [c \in 1..cols |-> Value("int", r + c)]])

\* The operands of a side: arrays of one and two dimensions, Series, and
\* Frames whose inner axis (the columns on the left, the index on the right)
\* takes every index and whose outer axis is labelled from 'a' on.
MatmulOperands(left) ==
    {Operand("ndarray", Values1d(n), <<>>, <<>>) : n \in 0..MaxDim}
    \cup {Operand("ndarray", Values2d(sh[1], sh[2]), <<>>, <<>>) :
                sh \in (1..MaxDim) \X (1..MaxDim)}
    \cup {Operand("Series", Values1d(Len(index)), index, <<>>) : index \in MatmulIndexes}
    \cup UNION {{IF left
                    THEN Operand("Frame", Values2d(n, Len(index)),
                                 [i \in 1..n |-> Value("str", i)], index)
                    ELSE Operand("Frame", Values2d(Len(index), n), index,
                                 [i \in 1..n |-> Value("str", i)]) :
                    n \in 1..MaxDim} : index \in MatmulIndexes}

InitMatmul ==
    /\ pc = "call"
    /\ \E lhs \in MatmulOperands(TRUE), rhs \in MatmulOperands(FALSE) :
            args = [fn |-> "matmul", lhs |-> lhs, rhs |-> rhs]
    /\ locals = NoLocals
    /\ ret = NoRet
    /\ mem = NoMem

\* matmul of two ndarrays: np.matmul on them.
MatmulArrays ==
    /\ pc = "call"
    /\ args.fn = "matmul"
    /\ args.lhs.type = "ndarray" /\ args.rhs.type = "ndarray"
    /\ LET data == np_matmul(args.lhs.values, args.rhs.values)
       IN  ret' = Result(IF data.dtype.kind \in Exceptions THEN data.dtype.kind
                         ELSE "ndarray", data, <<>>, <<>>, TRUE)
    /\ pc' = "done"
    /\ UNCHANGED <<args, locals, mem>>

\* matmul with a container, up to np.matmul.
MatmulPrepare ==
    /\ pc = "call"
    /\ args.fn = "matmul"
    /\ ~(args.lhs.type = "ndarray" /\ args.rhs.type = "ndarray")
    /\ \E p \in matmul_prepare(args.lhs, args.rhs) :
            IF p.raised # ""
                THEN /\ ret' = Result(p.raised, RaisedArray(p.raised), <<>>, <<>>, TRUE)
                     /\ pc' = "done"
                     /\ UNCHANGED locals
                ELSE /\ locals' = p
                     /\ pc' = "np.matmul"
                     /\ UNCHANGED ret
    /\ UNCHANGED <<args, mem>>

\* np.matmul and the return.
MatmulReturn ==
    /\ pc = "np.matmul"
    /\ ret' = matmul_return(locals)
    /\ pc' = "done"
    /\ UNCHANGED <<args, locals, mem>>

NextMatmul == MatmulArrays \/ MatmulPrepare \/ MatmulReturn

SpecMatmul == InitMatmul /\ [][NextMatmul]_vars

\* The inner dimension of the operands does not match: other labels (or
\* another number of them) on the left's last axis than in the right's index,
\* or, with an ndarray, another length.
InnerMismatch ==
    LET lhs == args.lhs
        rhs == args.rhs
    IN  IF lhs.type # "ndarray" /\ rhs.type # "ndarray"
            THEN Range(IF lhs.ndim = 1 THEN lhs.index ELSE lhs.columns) # Range(rhs.index)
            ELSE lhs.shape[lhs.ndim] # rhs.shape[1]

\* C20: for operands that are not both ndarrays and whose inner dimension does
\* not match, matmul raises RuntimeError, and it has not called np.matmul.
C20_NotAlignable ==
    /\ pc = "done"
    /\ args.fn = "matmul"
    /\ ~(args.lhs.type = "ndarray" /\ args.rhs.type = "ndarray")
    /\ InnerMismatch
    => ret.type = "RuntimeError" /\ locals = NoLocals

(***************************************************************************)
(* array_shift on every shape                                              *)
(***************************************************************************)
\* C30: array_shift returns, for every array of one or two dimensions (also one
\* of length 0 along the shifted axis), every shift and both settings of wrap,
\* an array of the shape of its input, and raises nothing.
C30_ShiftTotal ==
    pc = "done" /\ args.fn = "array_shift" =>
        /\ ret.dtype.kind \notin Exceptions
        /\ ret.shape = args.array.shape

(***************************************************************************)
(* resolve_dtype_iter and the order of its input                           *)
(***************************************************************************)
\* The sequences that hold the elements of a sequence in another order.
Reorderings(seq) ==
    {[i \in 1..Len(seq) |-> seq[p[i]]] :
        p \in {q \in [1..Len(seq) -> 1..Len(seq)] :
                    \A i, j \in 1..Len(seq) : q[i] = q[j] => i = j}}

C26_SameNdim ==
    /\ pc = "done"
    /\ args.fn = "ufunc_set_iter"
    /\ \E i \in 2..Len(args.arrays) : Len(args.arrays[i].shape) # Len(args.arrays[1].shape)
    => ret = RaisedHandle("RuntimeError")

(***************************************************************************)
(* iterable_to_array_1d and its uniqueness flag                            *)
(***************************************************************************)
\* The integers and the strings of digits an iterable holds here: np.array
\* turns either into the other when the dtype asks for it.
ToArrayValues == {Value("int", 1), Value("int", 2), Value("str", 1), Value("str", 2)}

\* The dtype arguments: none, int, str and object.
ToArrayDtypes == {DtypeNone, Dtype("i", 8), Dtype("U", 1), DTYPE_OBJECT}

\* A tuple, a generator, a set (no two of its elements equal) or an ndarray of
\* up to MaxLen values.
ToArrayIterables ==
    {Iterable(kind, values, DtypeNone) :
        kind \in {"tuple", "generator"}, values \in SeqsUpTo(ToArrayValues, MaxLen)}
    \cup {Iterable("frozenset", values, DtypeNone) :
            values \in {vs \in SeqsUpTo(ToArrayValues, MaxLen) : IsUnique(vs)}}
    \cup {Iterable("ndarray", values, Dtype("i", 8)) :
            values \in SeqsUpTo({Value("int", 1), Value("int", 2)}, MaxLen)}

InitToArray ==
    /\ pc = "call"
    /\ \E values \in ToArrayIterables, dtype \in ToArrayDtypes :
            args = [fn |-> "iterable_to_array_1d", values |-> values, dtype |-> dtype]
    /\ locals = NoLocals
    /\ ret = NoRet
    /\ mem = NoMem

IterableToArray1d ==
    /\ pc = "call"
    /\ args.fn = "iterable_to_array_1d"
    /\ ret' = iterable_to_array_1d(args.values, args.dtype)
    /\ pc' = "done"
    /\ UNCHANGED <<args, locals, mem>>

SpecToArray == InitToArray /\ [][IterableToArray1d]_vars

\* C28: whenever iterable_to_array_1d returns is_unique = True, no two elements
\* of the array it returns are equal, whatever the iterable and the dtype.
C28_UniqueSound ==
    pc = "done" /\ args.fn = "iterable_to_array_1d" /\ ret.is_unique =>
        \A i, j \in 1..Len(ret.array.data) :
            PyEq(ret.array.data[i], ret.array.data[j]) => i = j

(***************************************************************************)
(* resolve_type_iter and the values it returns                             *)
(*                                                                         *)
(* mem[1] is the iterable the caller passes: the elements of a sequence or *)
(* a set, or the elements a generator is going to produce.  A list the     *)
(* function builds is a new object of the heap; ret.values names the       *)
(* object that is returned.                                                *)
(***************************************************************************)
\* is_gen_copy_values: a generator has no __len__; a generator, a set or a
\* dict is copied for the array constructor.
is_gen_copy_values(values) ==
    [is_gen |-> values.kind = "generator",
     copy_values |-> values.kind \in {"generator", "frozenset", "dict"}]

\* The break of the loop that leaves what the generator has not yet produced.
values_post_break_noextend(values_post, v_iter, copy_values) == values_post

\* The break of the loop, once resolved is object: the copy takes all that is
\* left of the iterator.
values_post_break(values_post, v_iter, copy_values) ==
    IF copy_values THEN values_post \o v_iter ELSE values_post

\* The values the scan is tried on: integers (one too big for a float), a
\* float, a string, None and a tuple.
TypeIterValues ==
    {Value("int", 1), [Value("int", 2) EXCEPT !.s = "big"], Value("float", 1),
     Value("str", 1), None, Value("tuple", 1)}

InitTypeIter ==
    /\ pc = "call"
    /\ \E kind \in {"generator", "list", "tuple", "frozenset"}, restrict_copy \in BOOLEAN :
        \E values \in SeqsUpTo(TypeIterValues, MaxLen) :
            /\ kind = "frozenset" => IsUnique(values)
            /\ mem = <<values>>
            /\ args = [fn |-> "resolve_type_iter",
                       values |-> Iterable(kind, values, DtypeNone),
                       restrict_copy |-> restrict_copy]
    /\ locals = NoLocals
    /\ ret = NoRet

\* Up to the loop: an empty sized iterable is returned at once.
ResolveTypeIterFirst ==
    /\ pc = "call"
    /\ args.fn = "resolve_type_iter"
    /\ LET gc == is_gen_copy_values(args.values)
       IN  IF ~gc.is_gen /\ Len(mem[1]) = 0
            THEN /\ ret' = [resolved |-> DtypeNone, has_tuple |-> FALSE, values |-> 1]
                 /\ pc' = "done"
                 /\ UNCHANGED locals
            ELSE /\ locals' = [copy_values |-> gc.copy_values /\ ~args.restrict_copy,
                               values_post |-> <<>>, types |-> NoTypes, next |-> 1]
                 /\ pc' = "loop"
                 /\ UNCHANGED ret
    /\ UNCHANGED <<args, mem>>

\* One value of the loop: copied if a copy is made, then looked at, or the
\* loop is left when resolved is already object.
ResolveTypeIterStep ==
    /\ pc = "loop"
    /\ locals.next <= Len(mem[1])
    /\ LET v == mem[1][locals.next]
           values_post == IF locals.copy_values THEN Append(locals.values_post, v)
                          ELSE locals.values_post
           v_iter == SubSeq(mem[1], locals.next + 1, Len(mem[1]))
       IN  IF locals.types.resolved # DTYPE_OBJECT
            THEN /\ locals' = [locals EXCEPT !.values_post = values_post,
                                             !.types = type_of_value(locals.types, v),
                                             !.next = locals.next + 1]
                 /\ UNCHANGED pc
            ELSE /\ locals' = [locals EXCEPT
                                    !.values_post = values_post_break(values_post, v_iter,
                                                                      locals.copy_values),
                                    !.next = IF locals.copy_values THEN Len(mem[1]) + 1
                                             ELSE locals.next + 1]
                 /\ pc' = "return"
    /\ UNCHANGED <<args, ret, mem>>

\* The return: the copy as a new list, or the iterable itself.
ResolveTypeIterReturn ==
    /\ \/ pc = "return"
       \/ pc = "loop" /\ locals.next > Len(mem[1])
    /\ IF locals.copy_values
        THEN /\ mem' = Append(mem, locals.values_post)
             /\ ret' = [resolved |-> locals.types.resolved,
                        has_tuple |-> locals.types.has_tuple, values |-> Len(mem) + 1]
        ELSE /\ ret' = [resolved |-> locals.types.resolved,
                        has_tuple |-> locals.types.has_tuple, values |-> 1]
             /\ UNCHANGED mem
    /\ pc' = "done"
    /\ UNCHANGED <<args, locals>>

NextTypeIter == ResolveTypeIterFirst \/ ResolveTypeIterStep \/ ResolveTypeIterReturn

SpecTypeIter == InitTypeIter /\ [][NextTypeIter]_vars

TypeIterDone == pc = "done" /\ args.fn = "resolve_type_iter"

\* C24: for a generator and restrict_copy False the values returned are a new
\* list that holds every element the generator produces, in the order it
\* produces them, also those after the one at which resolved became object; a
\* list or a tuple is returned as the same object, not copied.
C24_Values ==
    /\ TypeIterDone /\ args.values.kind = "generator" /\ ~args.restrict_copy =>
            /\ ret.values # 1
            /\ mem[ret.values] = args.values.values
            /\ mem[1] = args.values.values
    /\ TypeIterDone /\ args.values.kind \in {"list", "tuple"} =>
            /\ ret.values = 1
            /\ mem = <<args.values.values>>

\* A generator whose first value, a tuple, makes resolved object: the loop is
\* left at the second value, and the list returned holds the third as well.
C24_Witness ==
    /\ TypeIterDone
    /\ args.values.kind = "generator"
    /\ ~args.restrict_copy
    /\ args.values.values = <<Value("tuple", 1), Value("int", 1), None>>
    /\ ret.resolved = DTYPE_OBJECT
    /\ ret.values = 2
    /\ mem[2] = <<Value("tuple", 1), Value("int", 1), None>>

(***************************************************************************)
(* index_from_optional_constructor                                         *)
(*                                                                         *)
(* The heap holds objects: an Index (immutable, STATIC) or an IndexGO      *)
(* (grow-only, not STATIC) with its labels, or a list of labels.  A        *)
(* constructor is a class, a class method of one (its __self__ is the      *)
(* class), or a function that has no STATIC attribute.                     *)
(***************************************************************************)
Object(cls, static, labels) == [cls |-> cls, static |-> static, labels |-> labels]

Constructor(kind, cls, static) == [kind |-> kind, cls |-> cls, static |-> static]

\* explicit_constructor=None
NoConstructor == Constructor("None", "", FALSE)

IndexClasses == {"Index", "IndexGO"}

\* is_static: the STATIC attribute of a class or of the class of a class
\* method; AttributeError for a function that has neither.
is_static(value) ==
    IF value.kind \in {"class", "classmethod"} THEN (IF value.static THEN "True" ELSE "False")
    ELSE "AttributeError"

\* A constructor called on an object: a new object of the constructor's
\* class with the labels of the object.
construct(m, constructor, value) ==
    Outcome(Append(m, Object(constructor.cls, constructor.static, m[value].labels)),
            Len(m) + 1)

\* index_from_optional_constructor handing a grow-only index back as it is.
index_from_optional_constructor_shared(m, value, default_constructor, explicit_constructor) ==
    IF explicit_constructor # NoConstructor THEN construct(m, explicit_constructor, value)
    ELSE IF m[value].cls \in IndexClasses THEN
        IF is_static(default_constructor) = "AttributeError"
            THEN Outcome(m, 0)
        ELSE IF is_static(default_constructor) = "True" THEN Outcome(m, value)
        ELSE IF ~m[value].static
            THEN construct(m, Constructor("class", m[value].cls, m[value].static), value)
        ELSE construct(m, default_constructor, value)
    ELSE construct(m, default_constructor, value)

\* index_from_optional_constructor: the heap and the object returned (0 where
\* is_static raises AttributeError).
index_from_optional_constructor(m, value, default_constructor, explicit_constructor) ==
    IF explicit_constructor # NoConstructor THEN construct(m, explicit_constructor, value)
    ELSE IF m[value].cls \in IndexClasses THEN
        IF is_static(default_constructor) = "AttributeError"
            THEN Outcome(m, 0)
        ELSE IF is_static(default_constructor) = "True" THEN
            IF ~m[value].static
                \* value._IMMUTABLE_CONSTRUCTOR(value)
                THEN construct(m, Constructor("class", "Index", TRUE), value)
                ELSE Outcome(m, value)
        ELSE IF ~m[value].static
            \* value.copy()
            THEN construct(m, Constructor("class", m[value].cls, m[value].static), value)
        ELSE construct(m, default_constructor, value)
    ELSE construct(m, default_constructor, value)

IndexConstructors ==
    {Constructor(kind, "Index", TRUE) : kind \in {"class", "classmethod"}}
    \cup {Constructor(kind, "IndexGO", FALSE) : kind \in {"class", "classmethod"}}

IndexInitializers ==
    {Object(cls, cls = "Index", labels) :
        cls \in IndexClasses \cup {"list"},
        labels \in {ls \in SeqsUpTo({Value("str", 1), Value("str", 2)}, MaxLen) : IsUnique(ls)}}

InitIndexFrom ==
    /\ pc = "call"
    /\ \E value \in IndexInitializers,
          default_constructor \in IndexConstructors \cup {Constructor("function", "Index", TRUE)},
          explicit_constructor \in IndexConstructors \cup {NoConstructor} :
            /\ mem = <<value>>
            /\ args = [fn |-> "index_from_optional_constructor", value |-> 1,
                       default_constructor |-> default_constructor,
                       explicit_constructor |-> explicit_constructor]
    /\ locals = NoLocals
    /\ ret = NoRet

IndexFromOptionalConstructor ==
    /\ pc = "call"
    /\ args.fn = "index_from_optional_constructor"
    /\ LET out == index_from_optional_constructor(mem, args.value, args.default_constructor,
                                                  args.explicit_constructor)
       IN  /\ mem' = out.mem
           /\ ret' = IF out.ret = 0 THEN [store |-> 0, raised |-> "AttributeError"]
                     ELSE [store |-> out.ret, raised |-> ""]
    /\ pc' = "done"
    /\ UNCHANGED <<args, locals>>

SpecIndexFrom == InitIndexFrom /\ [][IndexFromOptionalConstructor]_vars

IndexFromDone == pc = "done" /\ args.fn = "index_from_optional_constructor"

\* The object returned is a new one, made by a constructor of this class and
\* this mutability from the labels of the value.
NewIndex(cls, static) ==
    /\ ret.raised = ""
    /\ ret.store = 2
    /\ Len(mem) = 2
    /\ mem[2] = Object(cls, static, mem[1].labels)

\* C21: index_from_optional_constructor returns the index it is given, the same
\* object, only with no explicit constructor and an immutable index given under
\* an immutable default constructor.  A grow-only index under an immutable
\* default gives a new immutable index; a grow-only index under a grow-only
\* default a copy; an immutable index under a grow-only default a new index
\* made by the default constructor; and an explicit constructor is the one
\* applied whenever there is one.
C21_Sharing ==
    IndexFromDone =>
        LET value == mem[1]
            dc == args.default_constructor
            ec == args.explicit_constructor
            is_index == value.cls \in IndexClasses
        IN  /\ ret.raised = "" /\ ret.store = args.value =>
                    ec = NoConstructor /\ is_index /\ value.static /\ is_static(dc) = "True"
            /\ ec # NoConstructor => NewIndex(ec.cls, ec.static)
            /\ ec = NoConstructor /\ is_index /\ is_static(dc) = "True" =>
                    IF value.static THEN ret.store = args.value /\ Len(mem) = 1
                    ELSE NewIndex("Index", TRUE)
            /\ ec = NoConstructor /\ is_index /\ is_static(dc) = "False" =>
                    IF value.static THEN NewIndex(dc.cls, dc.static)
                    ELSE NewIndex(value.cls, FALSE)

\* A grow-only index under an immutable default constructor: a new, immutable
\* index comes back, and the grow-only one is not shared.
C21_Witness ==
    /\ IndexFromDone
    /\ args.explicit_constructor = NoConstructor
    /\ mem[1].cls = "IndexGO"
    /\ args.default_constructor = Constructor("class", "Index", TRUE)
    /\ ret.store = 2
    /\ mem[2] = Object("Index", TRUE, mem[1].labels)
    /\ Len(mem[1].labels) = 2

(***************************************************************************)
(* axis_window_items                                                       *)
(*                                                                         *)
(* The source is a Series of n values under n labels; args holds the       *)
(* keyword arguments (no window_func, no window_valid).  locals is the     *)
(* frame of the generator: idx_left, size, count, and the pairs it has     *)
(* yielded so far, each with the idx_left and the size it was taken at.    *)
(***************************************************************************)
MaxWindow == 3

\* labels.iloc[idx_label] inside the try: no label for a negative position (the
\* code raises IndexError itself) nor for one past the end.
window_label(labels, idx_label) ==
    IF idx_label < 0 \/ idx_label >= Len(labels)
        THEN [valid |-> FALSE, label |-> None]
        ELSE [valid |-> TRUE, label |-> labels[idx_label + 1]]

\* The test that ends the loop, without the count of the windows tried.
window_break_nocount(count, count_window_max, idx_left, idx_left_max) ==
    idx_left > idx_left_max

\* The test that ends the loop.
window_break(count, count_window_max, idx_left, idx_left_max) ==
    count > count_window_max \/ idx_left > idx_left_max

Yielded(label, window, idx_left, size) ==
    [label |-> label, window |-> window, idx_left |-> idx_left, size |-> size]

InitWindow ==
    /\ pc = "call"
    /\ \E n \in 0..MaxWindow, size \in 0..MaxWindow, step \in (0 - 1)..2,
          window_sized \in BOOLEAN, label_shift \in (0 - MaxWindow)..MaxWindow,
          start_shift \in (0 - (MaxWindow + 2))..1, size_increment \in (0 - 1)..1 :
            args = [fn |-> "axis_window_items",
                    labels |-> [i \in 1..n |-> Value("str", i)],
                    values |-> [i \in 1..n |-> Value("int", i)],
                    size |-> size, step |-> step, window_sized |-> window_sized,
                    label_shift |-> label_shift, start_shift |-> start_shift,
                    size_increment |-> size_increment]
    /\ locals = NoLocals
    /\ ret = NoRet
    /\ mem = NoMem

\* Up to the loop: the two checks of the arguments.
AxisWindowItemsStart ==
    /\ pc = "call"
    /\ args.fn = "axis_window_items"
    /\ IF args.size <= 0 \/ args.step < 0
        THEN /\ ret' = Raise("RuntimeError")
             /\ pc' = "done"
             /\ UNCHANGED locals
        ELSE /\ locals' = [idx_left |-> args.start_shift, size |-> args.size, count |-> 0,
                           yielded |-> <<>>]
             /\ pc' = "loop"
             /\ UNCHANGED ret
    /\ UNCHANGED <<args, mem>>

\* One turn of the loop: the window, its label, the yield if both are valid,
\* and the test that ends the loop.
AxisWindowItemsStep ==
    /\ pc = "loop"
    /\ LET idx_right == locals.idx_left + locals.size - 1
           window == GetSlice(args.values, Max(locals.idx_left, 0), idx_right + 1)
           found == window_label(args.labels, idx_right + args.label_shift)
           valid == /\ found.valid
                    /\ ~(args.window_sized /\ Len(window) # locals.size)
           yielded == IF valid
                        THEN Append(locals.yielded,
                                    Yielded(found.label, window, locals.idx_left, locals.size))
                        ELSE locals.yielded
           idx_left == locals.idx_left + args.step
           count == locals.count + 1
       IN  /\ locals' = [idx_left |-> idx_left, size |-> locals.size + args.size_increment,
                         count |-> count, yielded |-> yielded]
           /\ IF window_break(count, Len(args.labels), idx_left, Len(args.labels) - 1)
                THEN pc' = "done" /\ ret' = Dtype("generator", Len(yielded))
                ELSE UNCHANGED <<pc, ret>>
    /\ UNCHANGED <<args, mem>>

NextWindow == AxisWindowItemsStart \/ AxisWindowItemsStep

SpecWindow == InitWindow /\ [][NextWindow]_vars

WindowRunning == args.fn = "axis_window_items" /\ locals # NoLocals
WindowDone == pc = "done" /\ WindowRunning

\* The values of the source from position left to position right (from 0).
ValuesBetween(left, right) == SubSeq(args.values, left + 1, right + 1)

\* C22: on a source of n values, with 1 <= size <= n, step 1, label_shift 0,
\* window_sized and no size_increment, a negative start_shift yields what
\* start_shift 0 yields: one window for each right edge r from size - 1 to
\* n - 1, in this order, labelled labels[r].
C22_NegativeStart ==
    /\ WindowDone
    /\ 1 <= args.size /\ args.size <= Len(args.labels)
    /\ args.step = 1 /\ args.label_shift = 0 /\ args.window_sized /\ args.size_increment = 0
    /\ args.start_shift < 0
    => /\ Len(locals.yielded) = Len(args.labels) - args.size + 1
       /\ \A i \in 1..Len(locals.yielded) :
            LET r == args.size - 1 + (i - 1)
            IN  /\ locals.yielded[i].label = args.labels[r + 1]
                /\ locals.yielded[i].window = ValuesBetween(r - args.size + 1, r)

\* C23: every pair yielded has the label at position p = right edge of its
\* window + label_shift, with 0 <= p < len(labels); and with window_sized its
\* window has as many elements as the size of that turn, being the whole
\* window from its left to its right edge, cut at neither end.
C23_Yielded ==
    WindowRunning =>
        \A i \in 1..Len(locals.yielded) :
            LET y == locals.yielded[i]
                idx_right == y.idx_left + y.size - 1
                p == idx_right + args.label_shift
            IN  /\ 0 <= p /\ p < Len(args.labels)
                /\ y.label = args.labels[p + 1]
                /\ args.window_sized =>
                        /\ Len(y.window) = y.size
                        /\ 0 <= y.idx_left /\ idx_right < Len(args.labels)
                        /\ y.window = ValuesBetween(y.idx_left, idx_right)

MaxAxis == 5

Slice(start, stop) == [start |-> start, stop |-> stop]

\* zip_longest(target_index, target_index[1:], fillvalue=length)
target_slices_forward(target_index, length) ==
    [i \in 1..Len(target_index) |->
        Slice(target_index[i] + 1,
              IF i < Len(target_index) THEN target_index[i + 1] ELSE length)]

\* zip(chain((None,), target_index[:-1]), target_index)
target_slices_backward(target_index) ==
    [i \in 1..Len(target_index) |->
        Slice(IF i = 1 THEN 0 ELSE target_index[i - 1] + 1, target_index[i])]

\* len(range(*target_slice.indices(length)))
slice_len(target_slice, length) ==
    Max(PyBound(target_slice.stop, length) - PyBound(target_slice.start, length), 0)

\* A slice over the limit cut at its stop, whatever the direction.
limit_slice_stop(target_slice, length, directional_forward, limit) ==
    LET shift == slice_len(target_slice, length) - limit
    IN  IF limit > 0 /\ shift > 0
            THEN Slice(target_slice.start, target_slice.stop - shift)
            ELSE target_slice

\* A slice over the limit is cut at the end away from its target.
limit_slice(target_slice, length, directional_forward, limit) ==
    LET shift == slice_len(target_slice, length) - limit
    IN  IF limit > 0 /\ shift > 0
            THEN IF directional_forward
                    THEN Slice(target_slice.start, target_slice.stop - shift)
                    ELSE Slice(target_slice.start + shift, target_slice.stop)
            ELSE target_slice

\* The slices that are no-ops and are passed over.
noop_slice(target_slice, length, directional_forward) ==
    \/ target_slice.start = target_slice.stop
    \/ directional_forward /\ target_slice.start >= length

InitSlices ==
    /\ pc = "call"
    /\ \E length \in 0..MaxAxis, m \in 0..MaxAxis, directional_forward \in BOOLEAN,
          limit \in (0 - 1)..3 :
        \E target_index \in [1..m -> 0..(MaxAxis - 1)] :
            /\ \A i \in 1..m : target_index[i] < length
            /\ \A i \in 1..m : i < m => target_index[i] < target_index[i + 1]
            /\ args = [fn |-> "slices_from_targets", target_index |-> target_index,
                       target_values |-> target_index, length |-> length,
                       directional_forward |-> directional_forward, limit |-> limit]
    /\ locals = NoLocals
    /\ ret = NoRet
    /\ mem = NoMem

\* The generator of the slices, by direction.
SlicesFromTargetsStart ==
    /\ pc = "call"
    /\ args.fn = "slices_from_targets"
    /\ locals' = [target_slices |-> IF args.directional_forward
                                        THEN target_slices_forward(args.target_index, args.length)
                                        ELSE target_slices_backward(args.target_index),
                  k |-> 1, yielded |-> <<>>]
    /\ pc' = "for"
    /\ UNCHANGED <<args, ret, mem>>

\* One turn of the for loop over zip(target_slices, target_values).
SlicesFromTargetsStep ==
    /\ pc = "for"
    /\ locals.k <= Len(locals.target_slices)
    /\ \E slice_condition \in BOOLEAN :
        LET target_slice == locals.target_slices[locals.k]
            value == args.target_values[locals.k]
        IN  locals' = [locals EXCEPT
                !.k = @ + 1,
                !.yielded =
                    IF ~noop_slice(target_slice, args.length, args.directional_forward)
                       /\ slice_condition
                        THEN Append(@, [slice |-> limit_slice(target_slice, args.length,
                                                              args.directional_forward, args.limit),
                                        value |-> value])
                        ELSE @]
    /\ UNCHANGED <<pc, args, ret, mem>>

\* The zip is exhausted.
SlicesFromTargetsReturn ==
    /\ pc = "for"
    /\ locals.k > Len(locals.target_slices)
    /\ pc' = "done"
    /\ ret' = Dtype("generator", Len(locals.yielded))
    /\ UNCHANGED <<args, locals, mem>>

NextSlices == SlicesFromTargetsStart \/ SlicesFromTargetsStep \/ SlicesFromTargetsReturn

SpecSlices == InitSlices /\ [][NextSlices]_vars

SlicesRunning == args.fn = "slices_from_targets" /\ locals # NoLocals

\* C25: every slice yielded by slices_from_targets is non-empty, lies within
\* [0, length), holds no target and shares no position with another yielded
\* slice; with limit > 0 it has at most limit positions; a forward slice starts
\* right after its target and a backward slice stops at its target.
C25_Slices ==
    SlicesRunning =>
        \A i \in 1..Len(locals.yielded) :
            LET y == locals.yielded[i]
            IN  /\ y.slice.start < y.slice.stop
                /\ 0 <= y.slice.start /\ y.slice.stop <= args.length
                /\ \A t \in 1..Len(args.target_index) :
                        ~(y.slice.start <= args.target_index[t]
                          /\ args.target_index[t] < y.slice.stop)
                /\ \A j \in 1..Len(locals.yielded) :
                        j # i => \/ locals.yielded[j].slice.stop <= y.slice.start
                                 \/ y.slice.stop <= locals.yielded[j].slice.start
                /\ args.limit > 0 => y.slice.stop - y.slice.start <= args.limit
                /\ IF args.directional_forward
                        THEN y.slice.start = y.value + 1
                        ELSE y.slice.stop = y.value

\* Backward, limit 1, targets 0 and 3 of 4 positions: the gap 1..2 before the
\* target 3 is cut to the one position 2.
C25_Witness ==
    /\ pc = "done"
    /\ SlicesRunning
    /\ ~args.directional_forward
    /\ args.limit = 1
    /\ args.target_index = <<0, 3>>
    /\ locals.yielded = <<[slice |-> Slice(2, 3), value |-> 3]>>

====
